---- MODULE Spec2Model ----
(***************************************************************************)
(* Trainalyze Web: the email classification, field-extraction and          *)
(* refund-computation pipeline of src/app.py (and its near-duplicate       *)
(* src/api/index.py), with the session that stores one scan result.        *)
(*                                                                         *)
(* Text is modelled as a sequence of one-character strings, so that the    *)
(* regular expressions, substring tests and date formats of the source     *)
(* are computed character by character.  Money is counted in mills         *)
(* (thousandths of a pound); a Python float price parsed from decimal      *)
(* text is the double nearest to that decimal, and rounding follows the    *)
(* double's exact value.  Dates are proleptic Gregorian ordinals (day 1 is *)
(* 0001-01-01), as in Python's datetime.                                   *)
(***************************************************************************)
EXTENDS Integers, Sequences, FiniteSets, TLC

VARIABLES
    mailbox,      \* the messages the mail provider's search returns (indices into Universe)
    now,          \* datetime.now(): [ord |-> day ordinal, secs |-> second of the day]
    credentials,  \* 'credentials' in session
    oauth_state,  \* 'state' in session
    results,      \* session['results'], or None
    response,     \* what the last request answered
    call,         \* the arguments of the pure function under check
    ret           \* what that function returned

vars == <<mailbox, now, credentials, oauth_state, results, response, call, ret>>

(* Optional values: Python's None (also what .get() gives for an absent key) is *)
(* the empty tuple, and a present value v is the one-element tuple <<v>>.       *)
None == <<>>
Some(v) == <<v>>
Val(x) == x[1]

-----------------------------------------------------------------------------
(* Characters and strings.                                                 *)

UPPERS == <<"A","B","C","D","E","F","G","H","I","J","K","L","M","N","O","P","Q","R","S","T","U","V","W","X","Y","Z">>
LOWERS == <<"a","b","c","d","e","f","g","h","i","j","k","l","m","n","o","p","q","r","s","t","u","v","w","x","y","z">>
DIGITS == <<"0","1","2","3","4","5","6","7","8","9">>

IsUpper(c) == \E i \in 1..26 : UPPERS[i] = c
IsLower(c) == \E i \in 1..26 : LOWERS[i] = c
IsDigit(c) == \E i \in 1..10 : DIGITS[i] = c
IsAlpha(c) == IsUpper(c) \/ IsLower(c)
IsAlnum(c) == IsAlpha(c) \/ IsDigit(c)
\* \s of the re module, over the characters the model's texts use
IsSpace(c) == c \in {" ", "\n", "\t"}

DigitVal(c) == (CHOOSE i \in 1..10 : DIGITS[i] = c) - 1

\* str.lower() and str.upper(), character by character
LowerChar(c) == IF IsUpper(c) THEN LOWERS[CHOOSE i \in 1..26 : UPPERS[i] = c] ELSE c
UpperChar(c) == IF IsLower(c) THEN UPPERS[CHOOSE i \in 1..26 : LOWERS[i] = c] ELSE c
lower(s) == [i \in 1..Len(s) |-> LowerChar(s[i])]
upper(s) == [i \in 1..Len(s) |-> UpperChar(s[i])]

\* s[a:b] of Python for 1-based a and inclusive b
Slice(s, a, b) == [i \in 1..(b - a + 1) |-> s[a + i - 1]]

\* kw occurs in t at position i (a plain, case-sensitive comparison)
MatchAt(t, kw, i) ==
    /\ i >= 1
    /\ i + Len(kw) - 1 <= Len(t)
    /\ \A k \in 1..Len(kw) : t[i + k - 1] = kw[k]

\* kw in t
Contains(t, kw) == \E i \in 1..(Len(t) - Len(kw) + 1) : MatchAt(t, kw, i)

\* any(kw in text for kw in kws)
ContainsAny(t, kws) == \E k \in 1..Len(kws) : Contains(t, kws[k])

\* kw occurs in t at position i under re.IGNORECASE
MatchAtCI(t, kw, i) ==
    /\ i >= 1
    /\ i + Len(kw) - 1 <= Len(t)
    /\ \A k \in 1..Len(kw) : LowerChar(t[i + k - 1]) = LowerChar(kw[k])

Min(S) == CHOOSE x \in S : \A y \in S : x <= y

\* how many consecutive characters from position i on are digits / letters / ...
DigitRun(t, i) == Min({j \in i..(Len(t) + 1) : j = Len(t) + 1 \/ ~IsDigit(t[j])}) - i
AlphaRun(t, i) == Min({j \in i..(Len(t) + 1) : j = Len(t) + 1 \/ ~IsAlpha(t[j])}) - i
AlnumRun(t, i) == Min({j \in i..(Len(t) + 1) : j = Len(t) + 1 \/ ~IsAlnum(t[j])}) - i
SpaceRun(t, i) == Min({j \in i..(Len(t) + 1) : j = Len(t) + 1 \/ ~IsSpace(t[j])}) - i

\* int() of a run of decimal digits
RECURSIVE IntOf(_)
IntOf(ds) == IF Len(ds) = 0 THEN 0
             ELSE 10 * IntOf(Slice(ds, 1, Len(ds) - 1)) + DigitVal(ds[Len(ds)])


-----------------------------------------------------------------------------
(* Configuration tables of the source.                                     *)

\* A faulty variant of DELAY_REPAY_SCHEMES: the tier of 120 minutes of
\* delay_repay_15 pays half the price.
DELAY_REPAY_SCHEMES_half_at_120 ==
    [standard       |-> << <<15, 25>>, <<30, 50>>, <<60, 100>> >>,
     delay_repay_15 |-> << <<15, 25>>, <<30, 50>>, <<60, 100>>, <<120, 50>> >>,
     tfl            |-> << <<15, 100>> >>]

\* DELAY_REPAY_SCHEMES: each scheme's items (threshold minutes, percentage), in
\* the dictionary's order.  A percentage p stands for the float p/100 (0.25,
\* 0.5 and 1.0 are exact doubles).
DELAY_REPAY_SCHEMES ==
    [standard       |-> << <<15, 25>>, <<30, 50>>, <<60, 100>> >>,
     delay_repay_15 |-> << <<15, 25>>, <<30, 50>>, <<60, 100>>, <<120, 100>> >>,
     tfl            |-> << <<15, 100>> >>]

DR15_OPERATORS ==
    {"LNER", "Avanti West Coast", "Great Western Railway", "GWR", "c2c",
     "Greater Anglia", "Southeastern", "TransPennine Express",
     "East Midlands Railway", "Chiltern Railways", "CrossCountry"}

\* CLAIM_DEADLINES (days from travel)
CLAIM_DEADLINES ==
    [o \in {"default", "LNER", "Avanti West Coast", "Great Western Railway", "GWR",
            "TfL", "National Express"} |-> IF o = "National Express" THEN 30 ELSE 28]

\* OPERATOR_MAP: (key, display name), in the dictionary's order
OPERATOR_MAP ==
    << <<<<"t","r","a","i","n","l","i","n","e">>, "Trainline">>, <<<<"l","n","e","r">>, "LNER">>, <<<<"g","w","r">>, "GWR">>,
       <<<<"a","v","a","n","t","i">>, "Avanti West Coast">>, <<<<"t","p","e","x","p","r","e","s","s">>, "TransPennine Express">>,
       <<<<"s","o","u","t","h","e","r","n">>, "Southern">>, <<<<"s","o","u","t","h","e","a","s","t","e","r","n">>, "Southeastern">>,
       <<<<"c","2","c">>, "c2c">>, <<<<"c","r","o","s","s","c","o","u","n","t","r","y">>, "CrossCountry">>,
       <<<<"n","o","r","t","h","e","r","n">>, "Northern">>, <<<<"s","c","o","t","r","a","i","l">>, "ScotRail">>,
       <<<<"c","h","i","l","t","e","r","n">>, "Chiltern Railways">>,
       <<<<"e","a","s","t","m","i","d","l","a","n","d","s">>, "East Midlands Railway">>,
       <<<<"g","r","e","a","t","e","r","a","n","g","l","i","a">>, "Greater Anglia">>, <<<<"t","f","l">>, "TfL">>,
       <<<<"n","a","t","i","o","n","a","l","e","x","p","r","e","s","s">>, "National Express">>, <<<<"m","e","g","a","b","u","s">>, "Megabus">>,
       <<<<"e","u","r","o","s","t","a","r">>, "Eurostar">>, <<<<"h","e","a","t","h","r","o","w">>, "Heathrow Express">> >>

-----------------------------------------------------------------------------
(* Floats.  A price is the double nearest to a decimal of n mills.         *)

RECURSIVE Pow2(_)
Pow2(k) == IF k = 0 THEN 1 ELSE 2 * Pow2(k - 1)

RECURSIVE Pow2Mod(_, _)
Pow2Mod(k, m) == IF k = 0 THEN 1 % m ELSE (2 * Pow2Mod(k - 1, m)) % m

\* the binary exponent e of n mills: 2^e <= n/1000 < 2^(e+1)
BinExp(n) ==
    IF n >= 1000
    THEN CHOOSE e \in 0..30 : 1000 * Pow2(e) <= n /\ n < 1000 * Pow2(e + 1)
    ELSE - (CHOOSE k \in 0..10 : n * Pow2(k) >= 1000 /\ (k = 0 \/ n * Pow2(k - 1) < 1000))

\* the sign of double(n/1000) - n/1000: the 53-bit mantissa is n * 2^s / 1000
\* rounded half to even, s = 52 - BinExp(n); only its remainder decides
FloatErrSign(n) ==
    LET s == 52 - BinExp(n)
        t == ((n % 2000) * Pow2Mod(s, 2000)) % 2000
        r == t % 1000
    IN  IF r = 0 THEN 0
        ELSE IF r < 500 THEN -1
        ELSE IF r > 500 THEN 1
        ELSE IF t >= 1000 THEN 1 ELSE -1

\* round(price * pct, 2) in mills, for a price of n mills and pct = p/100: the
\* product is exact in binary, and round() rounds the double's exact value to the
\* nearest hundredth, an exact tie to the even one
round2(n, p) ==
    LET v == n * p
        pence == v \div 1000
        rem == v % 1000
        up == IF rem # 500 THEN rem > 500
              ELSE IF FloatErrSign(n) # 0 THEN FloatErrSign(n) > 0
              ELSE pence % 2 = 1
    IN  10 * (IF up THEN pence + 1 ELSE pence)

-----------------------------------------------------------------------------
(* Refund Calculator.                                                      *)

\* A faulty variant of SortedReverse: the items by ascending threshold, so that
\* the lowest threshold met would win.
RECURSIVE SortedAscending(_)
SortedAscending(items) ==
    IF Len(items) = 0 THEN <<>>
    ELSE LET k == CHOOSE k \in 1..Len(items) :
                      \A j \in 1..Len(items) : items[k][1] <= items[j][1]
             rest == [i \in 1..(Len(items) - 1) |-> IF i < k THEN items[i] ELSE items[i + 1]]
         IN  <<items[k]>> \o SortedAscending(rest)

\* sorted(scheme.items(), reverse=True): the items by descending threshold
RECURSIVE SortedReverse(_)
SortedReverse(items) ==
    IF Len(items) = 0 THEN <<>>
    ELSE LET k == CHOOSE k \in 1..Len(items) :
                      \A j \in 1..Len(items) : items[j][1] <= items[k][1]
             rest == [i \in 1..(Len(items) - 1) |-> IF i < k THEN items[i] ELSE items[i + 1]]
         IN  <<items[k]>> \o SortedReverse(rest)

\* A faulty variant of SchemeOf: TfL is treated as any other operator.
SchemeIgnoringTfL(operator) ==
    IF operator # None /\ Val(operator) \in DR15_OPERATORS
    THEN DELAY_REPAY_SCHEMES.delay_repay_15
    ELSE DELAY_REPAY_SCHEMES.standard

\* the scheme calculate_refund selects; operator is an optional name
SchemeOf(operator) ==
    IF operator = Some("TfL") THEN DELAY_REPAY_SCHEMES.tfl
    ELSE IF operator # None /\ Val(operator) \in DR15_OPERATORS
         THEN DELAY_REPAY_SCHEMES.delay_repay_15
    ELSE DELAY_REPAY_SCHEMES.standard

\* A faulty variant of Falsy: only None is falsy, zero is not.
IsNone(x) == x = None

\* not x, for an optional number: None and zero are falsy
Falsy(x) == x = None \/ x = Some(0)

\* A faulty variant of calculate_refund: the price is looked at only after the
\* tier is chosen, so a percentage is returned without an amount.
calculate_refund_pct_first(delay_mins, price, operator) ==
    IF delay_mins = None \/ delay_mins = Some(0) THEN <<None, None>>
    ELSE LET tiers == SchemeOf(operator)
             met == {k \in 1..Len(tiers) : Val(delay_mins) >= tiers[k][1]}
             k == CHOOSE k \in met : \A j \in met : tiers[j][1] <= tiers[k][1]
         IN  IF met = {} THEN <<None, None>>
             ELSE IF price = None \/ price = Some(0) THEN <<None, Some(tiers[k][2])>>
             ELSE <<Some(round2(Val(price), tiers[k][2])), Some(tiers[k][2])>>

\* calculate_refund(delay_mins, price, operator): <<refund_amount, refund_pct>>,
\* all optional values; price and refund_amount in mills
calculate_refund(delay_mins, price, operator) ==
    IF Falsy(delay_mins) \/ Falsy(price)
    THEN <<None, None>>
    ELSE LET tiers == SortedReverse(SchemeOf(operator))
             met == {k \in 1..Len(tiers) : Val(delay_mins) >= tiers[k][1]}
         IN  IF met = {} THEN <<None, None>>
             ELSE LET k == Min(met)
                  IN  <<Some(round2(Val(price), tiers[k][2])), Some(tiers[k][2])>>

-----------------------------------------------------------------------------
(* Calendar arithmetic of datetime: proleptic Gregorian ordinals.          *)

IsLeap(y) == y % 4 = 0 /\ (y % 100 # 0 \/ y % 400 = 0)

DaysInMonth(y, m) ==
    IF m = 2 THEN (IF IsLeap(y) THEN 29 ELSE 28)
    ELSE IF m \in {4, 6, 9, 11} THEN 30 ELSE 31

DaysBeforeYear(y) == (y - 1) * 365 + (y - 1) \div 4 - (y - 1) \div 100 + (y - 1) \div 400

RECURSIVE DaysBeforeMonth(_, _)
DaysBeforeMonth(y, m) == IF m = 1 THEN 0 ELSE DaysBeforeMonth(y, m - 1) + DaysInMonth(y, m - 1)

\* date(y, m, d).toordinal()
ymd2ord(y, m, d) == DaysBeforeYear(y) + DaysBeforeMonth(y, m) + d

\* date.max.toordinal(): past it, datetime + timedelta raises OverflowError
MaxOrdinal == ymd2ord(9999, 12, 31)

\* date.fromordinal(n) as <<y, m, d>>
ord2ymd(n) ==
    LET est == (n * 400) \div 146097 + 1
        y == CHOOSE c \in (est - 1)..(est + 1) :
                 DaysBeforeYear(c) < n /\ n <= DaysBeforeYear(c + 1)
        m == CHOOSE c \in 1..12 :
                 /\ DaysBeforeMonth(y, c) < n - DaysBeforeYear(y)
                 /\ n - DaysBeforeYear(y) <= DaysBeforeMonth(y, c) + DaysInMonth(y, c)
    IN  <<y, m, n - DaysBeforeYear(y) - DaysBeforeMonth(y, m)>>

\* the decimal digits of n, zero-padded to width w
RECURSIVE Digits(_, _)
Digits(n, w) == IF w = 0 THEN <<>> ELSE Digits(n \div 10, w - 1) \o <<DIGITS[(n % 10) + 1]>>

\* date.strftime('%Y-%m-%d')
strftime_ymd(n) ==
    LET t == ord2ymd(n)
    IN  Digits(t[1], 4) \o <<"-">> \o Digits(t[2], 2) \o <<"-">> \o Digits(t[3], 2)

-----------------------------------------------------------------------------
(* datetime.strptime for the formats of get_claim_deadline.  A field       *)
(* parser gives [ok, val, next]: whether the field matches at position i,  *)
(* its value, and the position after it.                                   *)

NoField == [ok |-> FALSE, val |-> 0, next |-> 0]

\* %d: 3[0-1]|[1-2]\d|0[1-9]|[1-9]| [1-9], the text up to the next literal
DayField(s, i) ==
    LET r == IF i <= Len(s) THEN DigitRun(s, i) ELSE 0
        v == IntOf(Slice(s, i, i + r - 1))
    IN  IF r \in {1, 2} /\ v >= 1 /\ v <= 31
        THEN [ok |-> TRUE, val |-> v, next |-> i + r]
        ELSE IF /\ i + 1 <= Len(s) /\ s[i] = " " /\ DigitRun(s, i + 1) = 1
                /\ s[i + 1] # "0"
        THEN [ok |-> TRUE, val |-> DigitVal(s[i + 1]), next |-> i + 2]
        ELSE NoField

\* %m: 1[0-2]|0[1-9]|[1-9]
MonthField(s, i) ==
    LET r == IF i <= Len(s) THEN DigitRun(s, i) ELSE 0
        v == IntOf(Slice(s, i, i + r - 1))
    IN  IF r \in {1, 2} /\ v >= 1 /\ v <= 12
        THEN [ok |-> TRUE, val |-> v, next |-> i + r]
        ELSE NoField

\* %Y: \d\d\d\d
YearField(s, i) ==
    LET r == IF i <= Len(s) THEN DigitRun(s, i) ELSE 0
    IN  IF r = 4
        THEN [ok |-> TRUE, val |-> IntOf(Slice(s, i, i + 3)), next |-> i + 4]
        ELSE NoField

\* a literal character of the format
LitField(s, i, c) ==
    IF i <= Len(s) /\ s[i] = c THEN [ok |-> TRUE, val |-> 0, next |-> i + 1] ELSE NoField

\* a space of the format: \s+
SpaceField(s, i) ==
    LET r == IF i <= Len(s) THEN SpaceRun(s, i) ELSE 0
    IN  IF r >= 1 THEN [ok |-> TRUE, val |-> 0, next |-> i + r] ELSE NoField

MONTH_ABBR == <<<<"J","a","n">>, <<"F","e","b">>, <<"M","a","r">>, <<"A","p","r">>, <<"M","a","y">>, <<"J","u","n">>,
                <<"J","u","l">>, <<"A","u","g">>, <<"S","e","p">>, <<"O","c","t">>, <<"N","o","v">>, <<"D","e","c">>>>
MONTH_NAME == <<<<"J","a","n","u","a","r","y">>, <<"F","e","b","r","u","a","r","y">>, <<"M","a","r","c","h">>, <<"A","p","r","i","l">>, <<"M","a","y">>, <<"J","u","n","e">>,
                <<"J","u","l","y">>, <<"A","u","g","u","s","t">>, <<"S","e","p","t","e","m","b","e","r">>, <<"O","c","t","o","b","e","r">>, <<"N","o","v","e","m","b","e","r">>, <<"D","e","c","e","m","b","e","r">>>>

\* %b or %B: one of the names, case-insensitively
NameField(s, i, names) ==
    IF \E k \in 1..12 : MatchAtCI(s, names[k], i)
    THEN LET k == CHOOSE k \in 1..12 : MatchAtCI(s, names[k], i)
         IN  [ok |-> TRUE, val |-> k, next |-> i + Len(names[k])]
    ELSE NoField

\* datetime(y, m, d), or None for the ValueError of a date that does not exist
\* or of unconverted data remaining after position `next`
MakeDate(s, next, y, m, d) ==
    IF next = Len(s) + 1 /\ y >= 1 /\ d <= DaysInMonth(y, m)
    THEN Some([ord |-> ymd2ord(y, m, d), secs |-> 0, aware |-> FALSE])
    ELSE None

\* strptime(s, '%d/%m/%Y') and strptime(s, '%d-%m-%Y'), sep the separator
strptime_dmy(s, sep) ==
    LET d  == DayField(s, 1)
        l1 == IF d.ok THEN LitField(s, d.next, sep) ELSE NoField
        m  == IF l1.ok THEN MonthField(s, l1.next) ELSE NoField
        l2 == IF m.ok THEN LitField(s, m.next, sep) ELSE NoField
        y  == IF l2.ok THEN YearField(s, l2.next) ELSE NoField
    IN  IF y.ok THEN MakeDate(s, y.next, y.val, m.val, d.val) ELSE None

\* strptime(s, '%Y-%m-%d')
strptime_ymd(s) ==
    LET y  == YearField(s, 1)
        l1 == IF y.ok THEN LitField(s, y.next, "-") ELSE NoField
        m  == IF l1.ok THEN MonthField(s, l1.next) ELSE NoField
        l2 == IF m.ok THEN LitField(s, m.next, "-") ELSE NoField
        d  == IF l2.ok THEN DayField(s, l2.next) ELSE NoField
    IN  IF d.ok THEN MakeDate(s, d.next, y.val, m.val, d.val) ELSE None

\* strptime(s, '%d %b %Y') and strptime(s, '%d %B %Y'), names the month names
strptime_dby(s, names) ==
    LET d  == DayField(s, 1)
        w1 == IF d.ok THEN SpaceField(s, d.next) ELSE NoField
        m  == IF w1.ok THEN NameField(s, w1.next, names) ELSE NoField
        w2 == IF m.ok THEN SpaceField(s, m.next) ELSE NoField
        y  == IF w2.ok THEN YearField(s, w2.next) ELSE NoField
    IN  IF y.ok THEN MakeDate(s, y.next, y.val, m.val, d.val) ELSE None

\* the loop over ['%d/%m/%Y', '%d-%m-%Y', '%Y-%m-%d', '%d %b %Y', '%d %B %Y']:
\* the first format that parses wins, a ValueError moves on to the next
OrElse(a, b) == IF a # None THEN a ELSE b

TryFormats(s) ==
    OrElse(strptime_dmy(s, "/"),
    OrElse(strptime_dmy(s, "-"),
    OrElse(strptime_ymd(s),
    OrElse(strptime_dby(s, MONTH_ABBR),
           strptime_dby(s, MONTH_NAME)))))

-----------------------------------------------------------------------------
(* datetime.fromisoformat, for the extended form                           *)
(* YYYY-MM-DD<sep>HH[:MM[:SS]][(+|-)HH:MM].                                *)

\* s.replace('Z', '+00:00')
RECURSIVE ReplaceZ(_)
ReplaceZ(s) ==
    IF Len(s) = 0 THEN <<>>
    ELSE ReplaceZ(Slice(s, 1, Len(s) - 1))
         \o (IF s[Len(s)] = "Z" THEN <<"+","0","0",":","0","0">> ELSE <<s[Len(s)]>>)

\* two digits at positions i and i+1
TwoDigits(s, i) == i + 1 <= Len(s) /\ IsDigit(s[i]) /\ IsDigit(s[i + 1])
TwoVal(s, i) == 10 * DigitVal(s[i]) + DigitVal(s[i + 1])

\* the time of day from position 12 on: [ok, secs, next]
IsoTime(s) ==
    IF ~(TwoDigits(s, 12) /\ TwoVal(s, 12) < 24)
    THEN [ok |-> FALSE, secs |-> 0, next |-> 0]
    ELSE IF ~(14 <= Len(s) /\ s[14] = ":")
    THEN [ok |-> TRUE, secs |-> 3600 * TwoVal(s, 12), next |-> 14]
    ELSE IF ~(TwoDigits(s, 15) /\ TwoVal(s, 15) < 60)
    THEN [ok |-> FALSE, secs |-> 0, next |-> 0]
    ELSE IF ~(17 <= Len(s) /\ s[17] = ":")
    THEN [ok |-> TRUE, secs |-> 3600 * TwoVal(s, 12) + 60 * TwoVal(s, 15), next |-> 17]
    ELSE IF ~(TwoDigits(s, 18) /\ TwoVal(s, 18) < 60)
    THEN [ok |-> FALSE, secs |-> 0, next |-> 0]
    ELSE [ok |-> TRUE,
          secs |-> 3600 * TwoVal(s, 12) + 60 * TwoVal(s, 15) + TwoVal(s, 18),
          next |-> 20]

\* a UTC offset (+|-)HH:MM that ends the string at position p
IsoOffset(s, p) ==
    /\ p + 5 = Len(s)
    /\ s[p] \in {"+", "-"}
    /\ TwoDigits(s, p + 1) /\ TwoVal(s, p + 1) < 24
    /\ s[p + 3] = ":"
    /\ TwoDigits(s, p + 4) /\ TwoVal(s, p + 4) < 60

\* datetime.fromisoformat(s): the datetime, or None for its ValueError; a
\* datetime with an offset is timezone-aware
fromisoformat(s) ==
    IF ~(/\ Len(s) >= 10
         /\ DigitRun(s, 1) = 4 /\ s[5] = "-" /\ TwoDigits(s, 6) /\ s[8] = "-"
         /\ TwoDigits(s, 9))
    THEN None
    ELSE LET y == IntOf(Slice(s, 1, 4))
             m == TwoVal(s, 6)
             d == TwoVal(s, 9)
             t == IsoTime(s)
         IN  IF ~(y >= 1 /\ m >= 1 /\ m <= 12 /\ d >= 1 /\ d <= DaysInMonth(y, m))
             THEN None
             ELSE IF Len(s) = 10
             THEN Some([ord |-> ymd2ord(y, m, d), secs |-> 0, aware |-> FALSE])
             ELSE IF ~t.ok THEN None
             ELSE IF t.next = Len(s) + 1
             THEN Some([ord |-> ymd2ord(y, m, d), secs |-> t.secs, aware |-> FALSE])
             ELSE IF IsoOffset(s, t.next)
             THEN Some([ord |-> ymd2ord(y, m, d), secs |-> t.secs, aware |-> TRUE])
             ELSE None

-----------------------------------------------------------------------------
(* Deadline Calculator.                                                    *)

\* CLAIM_DEADLINES.get(operator, CLAIM_DEADLINES['default'])
DeadlineDays(operator) ==
    IF operator # None /\ Val(operator) \in DOMAIN CLAIM_DEADLINES
    THEN CLAIM_DEADLINES[Val(operator)]
    ELSE CLAIM_DEADLINES["default"]

\* datetime.now() > deadline_date, for two naive datetimes
After(a, b) == a.ord > b.ord \/ (a.ord = b.ord /\ a.secs > b.secs)

\* the try block of get_claim_deadline: what it does, and what it returns.
\*   "return"  the return inside `if jdate:`
\*   "raise"   an exception reaches the outer except: a failed fromisoformat, the
\*             OverflowError of jdate + timedelta, the TypeError of comparing the
\*             naive datetime.now() with an aware deadline
\*   "fall"    no format parsed: jdate is None and the block ends
AfterParsing(operator, isIso, jdate, clock) ==
    LET deadline_ord == Val(jdate).ord + DeadlineDays(operator)
    IN  IF jdate = None
        THEN [does |-> IF isIso THEN "raise" ELSE "fall", deadline |-> None, status |-> "unknown"]
        ELSE IF deadline_ord > MaxOrdinal \/ Val(jdate).aware
        THEN [does |-> "raise", deadline |-> None, status |-> "unknown"]
        ELSE [does |-> "return",
              deadline |-> Some(strftime_ymd(deadline_ord)),
              status |-> IF After(clock, [ord |-> deadline_ord, secs |-> Val(jdate).secs])
                         THEN "expired" ELSE "active"]

TryBlock(operator, s, clock) ==
    IF Contains(s, <<"T">>)
    THEN AfterParsing(operator, TRUE, fromisoformat(ReplaceZ(s)), clock)
    ELSE AfterParsing(operator, FALSE, TryFormats(s), clock)

\* A faulty variant of get_claim_deadline: without the `except: pass`, what
\* the try block raises reaches the caller.
Propagated(t) ==
    IF t.does = "return"
    THEN [raised |-> FALSE, deadline |-> t.deadline, status |-> t.status]
    ELSE [raised |-> t.does = "raise", deadline |-> None, status |-> "unknown"]

get_claim_deadline_unguarded(operator, journey_date_str, clock) ==
    IF journey_date_str = None \/ journey_date_str = Some(<<>>)
    THEN [raised |-> FALSE, deadline |-> None, status |-> "unknown"]
    ELSE Propagated(TryBlock(operator, Val(journey_date_str), clock))

\* the end of get_claim_deadline, after the try block did t: its return, or
\* the final return after the `except: pass` or the end of the block
Swallowed(t) ==
    IF t.does = "return"
    THEN [raised |-> FALSE, deadline |-> t.deadline, status |-> t.status]
    ELSE [raised |-> FALSE, deadline |-> None, status |-> "unknown"]

\* get_claim_deadline(operator, journey_date_str), read at time `clock`:
\* [raised, deadline, status].  operator and journey_date_str are optional; the
\* bare `except: pass` swallows whatever the try block raises.
get_claim_deadline(operator, journey_date_str, clock) ==
    IF journey_date_str = None \/ journey_date_str = Some(<<>>)
    THEN [raised |-> FALSE, deadline |-> None, status |-> "unknown"]
    ELSE Swallowed(TryBlock(operator, Val(journey_date_str), clock))

-----------------------------------------------------------------------------
(* Email Classifier.                                                       *)

KW_DELAY_CLAIM == <<<<"d","e","l","a","y"," ","r","e","p","a","y">>, <<"c","o","m","p","e","n","s","a","t","i","o","n"," ","c","l","a","i","m">>, <<"y","o","u","r"," ","c","l","a","i","m">>, <<"d","e","l","a","y"," ","c","o","m","p","e","n","s","a","t","i","o","n">>>>
KW_REFUND == <<<<"r","e","f","u","n","d">>, <<"m","o","n","e","y"," ","b","a","c","k">>, <<"r","e","i","m","b","u","r","s","e","m","e","n","t">>, <<"c","r","e","d","i","t","e","d">>>>
KW_CANCELLATION == <<<<"c","a","n","c","e","l","l","e","d">>, <<"c","a","n","c","e","l","l","a","t","i","o","n">>, <<"s","e","r","v","i","c","e"," ","d","i","s","r","u","p","t","i","o","n">>, <<"n","o","t"," ","r","u","n","n","i","n","g">>>>
KW_DELAY == <<<<"d","e","l","a","y","e","d">>, <<"d","e","l","a","y">>, <<"l","a","t","e">>, <<"d","i","s","r","u","p","t","i","o","n">>>>
KW_BOOKING == <<<<"b","o","o","k","i","n","g"," ","c","o","n","f","i","r","m","a","t","i","o","n">>, <<"e","-","t","i","c","k","e","t">>, <<"y","o","u","r"," ","t","i","c","k","e","t">>, <<"b","o","o","k","i","n","g"," ","r","e","f","e","r","e","n","c","e">>>>
KW_STATEMENT == <<<<"j","o","u","r","n","e","y"," ","h","i","s","t","o","r","y">>, <<"o","y","s","t","e","r"," ","s","t","a","t","e","m","e","n","t">>, <<"c","o","n","t","a","c","t","l","e","s","s"," ","s","t","a","t","e","m","e","n","t">>>>
KW_RECEIPT == <<<<"r","e","c","e","i","p","t">>, <<"p","a","y","m","e","n","t">>, <<"i","n","v","o","i","c","e">>>>

\* categorise_email with the refund test moved before the delay_claim test
categorise_email_refund_first(subject, body, sender) ==
    LET text == lower(subject \o <<" ">> \o body)
    IN  IF ContainsAny(text, KW_REFUND) THEN "refund"
        ELSE IF ContainsAny(text, KW_DELAY_CLAIM) THEN "delay_claim"
        ELSE IF ContainsAny(text, KW_CANCELLATION) THEN "cancellation"
        ELSE IF ContainsAny(text, KW_DELAY) THEN "delay"
        ELSE IF ContainsAny(text, KW_BOOKING) THEN "booking"
        ELSE IF ContainsAny(text, KW_STATEMENT) THEN "statement"
        ELSE IF ContainsAny(text, KW_RECEIPT) THEN "receipt"
        ELSE "other"

\* categorise_email(subject, body, sender)
categorise_email(subject, body, sender) ==
    LET text == lower(subject \o <<" ">> \o body)
    IN  IF ContainsAny(text, KW_DELAY_CLAIM) THEN "delay_claim"
        ELSE IF ContainsAny(text, KW_REFUND) THEN "refund"
        ELSE IF ContainsAny(text, KW_CANCELLATION) THEN "cancellation"
        ELSE IF ContainsAny(text, KW_DELAY) THEN "delay"
        ELSE IF ContainsAny(text, KW_BOOKING) THEN "booking"
        ELSE IF ContainsAny(text, KW_STATEMENT) THEN "statement"
        ELSE IF ContainsAny(text, KW_RECEIPT) THEN "receipt"
        ELSE "other"

-----------------------------------------------------------------------------
(* Field Extractor.  Each pattern is an operator M(t, i): the text group 1 *)
(* captures when the pattern matches starting at position i, or None.      *)
(* re.search takes the leftmost starting position that matches.            *)

\* the end (position after) of a label of `labels` matching at i under
\* re.IGNORECASE, for each label that does
LabelEnds(t, labels, i) ==
    {i + Len(labels[k]) : k \in {k \in 1..Len(labels) : MatchAtCI(t, labels[k], i)}}

\* the run of characters from i on that are whitespace or in `extra`: [:\s#]*
SepRun(t, i, extra) ==
    Min({j \in i..(Len(t) + 1) : j = Len(t) + 1 \/ ~(IsSpace(t[j]) \/ t[j] \in extra)}) - i

\* re.search(pattern, text, re.IGNORECASE): group 1 of the leftmost match
Search(t, M(_, _)) ==
    LET hits == {i \in 1..Len(t) : M(t, i) # None}
    IN  IF hits = {} THEN None ELSE M(t, Min(hits))

REF_LABELS_A == <<<<"b","o","o","k","i","n","g">>, <<"r","e","f","e","r","e","n","c","e">>, <<"c","o","n","f","i","r","m","a","t","i","o","n">>>>
REF_LABELS_B == <<<<"r","e","f">>, <<"o","r","d","e","r">>>>

\* (?:<labels>)[:\s#]*([A-Z0-9]{6,10}) at position i
RefLabelled(t, labels, i) ==
    LET ok == {j \in LabelEnds(t, labels, i) :
                   AlnumRun(t, j + SepRun(t, j, {":", "#"})) >= 6}
    IN  IF ok = {} THEN None
        ELSE LET j == CHOOSE j \in ok : TRUE
                 k == j + SepRun(t, j, {":", "#"})
                 r == AlnumRun(t, k)
             IN  Some(Slice(t, k, k + (IF r > 10 THEN 10 ELSE r) - 1))

RefPatternA(t, i) == RefLabelled(t, REF_LABELS_A, i)
RefPatternB(t, i) == RefLabelled(t, REF_LABELS_B, i)

\* ([A-Z]{2,3}[0-9]{6,8}) at position i
RefPatternC(t, i) ==
    LET a == IF AlphaRun(t, i) >= 3 THEN 3 ELSE AlphaRun(t, i)
        r == DigitRun(t, i + a)
    IN  IF a >= 2 /\ r >= 6
        THEN Some(Slice(t, i, i + a + (IF r > 8 THEN 8 ELSE r) - 1))
        ELSE None

PRICE_LABELS == <<<<"t","o","t","a","l">>, <<"p","r","i","c","e">>, <<"c","o","s","t">>, <<"p","a","i","d">>, <<"a","m","o","u","n","t">>>>

\* [£](\d+\.?\d*) at position i
PricePatternBare(t, i) ==
    LET r == DigitRun(t, i + 1)
        dot == i + 1 + r <= Len(t) /\ t[i + 1 + r] = "."
        f == IF dot THEN DigitRun(t, i + 2 + r) ELSE 0
    IN  IF t[i] = "£" /\ r >= 1
        THEN Some(Slice(t, i + 1, i + r + (IF dot THEN 1 + f ELSE 0)))
        ELSE None

\* (?:total|price|cost|paid|amount)[:\s]*[£](\d+\.?\d*) at position i
PricePatternLabelled(t, i) ==
    LET ok == {j \in LabelEnds(t, PRICE_LABELS, i) :
                   /\ j + SepRun(t, j, {":"}) <= Len(t)
                   /\ PricePatternBare(t, j + SepRun(t, j, {":"})) # None}
    IN  IF ok = {} THEN None
        ELSE LET j == CHOOSE j \in ok : TRUE
             IN  PricePatternBare(t, j + SepRun(t, j, {":"}))

\* float() of digits, an optional point and digits, in mills; the texts of
\* the model carry at most three decimals
FloatOf(g) ==
    LET r == DigitRun(g, 1)
        f == Len(g) - r - 1
        frac == IF f <= 0 THEN 0
                ELSE IF f = 1 THEN 100 * IntOf(Slice(g, r + 2, r + 2))
                ELSE IF f = 2 THEN 10 * IntOf(Slice(g, r + 2, r + 3))
                ELSE IntOf(Slice(g, r + 2, r + 4))
    IN  1000 * IntOf(Slice(g, 1, r)) + frac

DATE_LABELS == <<<<"t","r","a","v","e","l">>, <<"j","o","u","r","n","e","y">>, <<"d","e","p","a","r","t">>, <<"d","e","p","a","r","t","u","r","e">>>>

\* \d{1,2}[\/\-]\d{1,2}[\/\-]\d{2,4} at position k: the position after it, or 0
NumericDateEnd(t, k) ==
    LET r1 == IF k <= Len(t) THEN DigitRun(t, k) ELSE 0
        s1 == k + r1
        r2 == IF s1 + 1 <= Len(t) THEN DigitRun(t, s1 + 1) ELSE 0
        s2 == s1 + 1 + r2
        r3 == IF s2 + 1 <= Len(t) THEN DigitRun(t, s2 + 1) ELSE 0
    IN  IF /\ r1 \in {1, 2} /\ s1 <= Len(t) /\ t[s1] \in {"/", "-"}
           /\ r2 \in {1, 2} /\ s2 <= Len(t) /\ t[s2] \in {"/", "-"}
           /\ r3 >= 2
        THEN s2 + 1 + (IF r3 > 4 THEN 4 ELSE r3)
        ELSE 0

\* (?:travel|journey|depart|departure)[:\s]*(\d{1,2}[\/\-]\d{1,2}[\/\-]\d{2,4})
DatePatternLabelled(t, i) ==
    LET ok == {j \in LabelEnds(t, DATE_LABELS, i) :
                   NumericDateEnd(t, j + SepRun(t, j, {":"})) # 0}
    IN  IF ok = {} THEN None
        ELSE LET j == CHOOSE j \in ok : TRUE
                 k == j + SepRun(t, j, {":"})
             IN  Some(Slice(t, k, NumericDateEnd(t, k) - 1))

\* (\d{1,2}\s+(?:Jan|...|Dec)[a-z]*\s+\d{2,4}) at position i
DatePatternTextual(t, i) ==
    LET r1 == DigitRun(t, i)
        w1 == IF i + r1 <= Len(t) THEN SpaceRun(t, i + r1) ELSE 0
        m  == i + r1 + w1
        isMonth == \E k \in 1..12 : MatchAtCI(t, MONTH_ABBR[k], m)
        e  == m + 3 + (IF m + 3 <= Len(t) THEN AlphaRun(t, m + 3) ELSE 0)
        w2 == IF e <= Len(t) THEN SpaceRun(t, e) ELSE 0
        r3 == IF e + w2 <= Len(t) THEN DigitRun(t, e + w2) ELSE 0
    IN  IF r1 \in {1, 2} /\ w1 >= 1 /\ isMonth /\ w2 >= 1 /\ r3 >= 2
        THEN Some(Slice(t, i, e + w2 + (IF r3 > 4 THEN 4 ELSE r3) - 1))
        ELSE None

DELAY_UNITS == <<<<"m","i","n","u","t","e">>, <<"m","i","n">>, <<"h","o","u","r">>, <<"h","r">>>>
DELAY_WORDS == <<<<"l","a","t","e">>, <<"d","e","l","a","y">>>>

\* (?:minute|min|hour|hr)s?\s*(?:late|delay) at position p: the position after
\* the first alternative that matches (units in order, the optional s taken
\* first), or 0
DelayTailEnd(t, p) ==
    LET tries == [n \in 1..8 |-> [unit |-> (n + 1) \div 2, s |-> n % 2 = 1]]
        Past(n) == p + Len(DELAY_UNITS[tries[n].unit]) + (IF tries[n].s THEN 1 ELSE 0)
        Word(n) == Past(n) + (IF Past(n) <= Len(t) THEN SpaceRun(t, Past(n)) ELSE 0)
        Ok(n) == /\ MatchAtCI(t, DELAY_UNITS[tries[n].unit], p)
                 /\ tries[n].s => (Past(n) - 1 <= Len(t) /\ LowerChar(t[Past(n) - 1]) = "s")
                 /\ LabelEnds(t, DELAY_WORDS, Word(n)) # {}
        good == {n \in 1..8 : Ok(n)}
    IN  IF good = {} THEN 0
        ELSE CHOOSE j \in LabelEnds(t, DELAY_WORDS, Word(Min(good))) : TRUE

\* (\d+)\s*(?:minute|min|hour|hr)s?\s*(?:late|delay) at position i: the whole
\* match (group 0), whose leading digits are group 1
DelayPattern(t, i) ==
    LET r == DigitRun(t, i)
        p == i + r + (IF i + r <= Len(t) THEN SpaceRun(t, i + r) ELSE 0)
    IN  IF r >= 1 /\ DelayTailEnd(t, p) # 0
        THEN Some(Slice(t, i, DelayTailEnd(t, p) - 1))
        ELSE None

UK_STATIONS ==
    <<<<"L","o","n","d","o","n"," ","E","u","s","t","o","n">>, <<"L","o","n","d","o","n"," ","K","i","n","g","s"," ","C","r","o","s","s">>, <<"L","o","n","d","o","n"," ","S","t"," ","P","a","n","c","r","a","s">>, <<"L","o","n","d","o","n"," ","P","a","d","d","i","n","g","t","o","n">>,
      <<"L","o","n","d","o","n"," ","V","i","c","t","o","r","i","a">>, <<"L","o","n","d","o","n"," ","W","a","t","e","r","l","o","o">>, <<"L","o","n","d","o","n"," ","L","i","v","e","r","p","o","o","l"," ","S","t","r","e","e","t">>, <<"L","o","n","d","o","n"," ","B","r","i","d","g","e">>,
      <<"M","a","n","c","h","e","s","t","e","r"," ","P","i","c","c","a","d","i","l","l","y">>, <<"B","i","r","m","i","n","g","h","a","m"," ","N","e","w"," ","S","t","r","e","e","t">>, <<"L","e","e","d","s">>, <<"G","l","a","s","g","o","w"," ","C","e","n","t","r","a","l">>,
      <<"E","d","i","n","b","u","r","g","h"," ","W","a","v","e","r","l","e","y">>, <<"B","r","i","s","t","o","l"," ","T","e","m","p","l","e"," ","M","e","a","d","s">>, <<"L","i","v","e","r","p","o","o","l"," ","L","i","m","e"," ","S","t","r","e","e","t">>, <<"N","e","w","c","a","s","t","l","e">>,
      <<"S","h","e","f","f","i","e","l","d">>, <<"N","o","t","t","i","n","g","h","a","m">>, <<"L","e","i","c","e","s","t","e","r">>, <<"C","a","m","b","r","i","d","g","e">>, <<"O","x","f","o","r","d">>, <<"B","r","i","g","h","t","o","n">>, <<"R","e","a","d","i","n","g">>,
      <<"C","a","r","d","i","f","f"," ","C","e","n","t","r","a","l">>, <<"Y","o","r","k">>, <<"P","e","t","e","r","b","o","r","o","u","g","h">>, <<"M","i","l","t","o","n"," ","K","e","y","n","e","s">>, <<"C","r","e","w","e">>, <<"P","r","e","s","t","o","n">>>>

\* the elements of sequence s at the indices of set I, in order
RECURSIVE Pick(_, _)
Pick(s, I) == IF I = {} THEN <<>> ELSE <<s[Min(I)]>> \o Pick(s, I \ {Min(I)})

\* found_stations comparing the text as written, not lower-cased
found_stations_as_written(text) ==
    Pick(UK_STATIONS, {k \in 1..Len(UK_STATIONS) : Contains(text, UK_STATIONS[k])})

\* found_stations: the gazetteer's stations that occur in the text
found_stations(text) ==
    Pick(UK_STATIONS, {k \in 1..Len(UK_STATIONS) : Contains(lower(text), lower(UK_STATIONS[k]))})

\* the ordered pattern lists: the first pattern that matches wins
FirstOf(a, b, c) == IF a # None THEN a ELSE IF b # None THEN b ELSE c

\* extract_data(subject, body, sender): the data dictionary; an absent key is None
extract_data(subject, body, sender) ==
    LET text == subject \o <<" ">> \o body
        ref == FirstOf(Search(text, RefPatternA), Search(text, RefPatternB),
                       Search(text, RefPatternC))
        price == FirstOf(Search(text, PricePatternLabelled),
                         Search(text, PricePatternBare), None)
        jdate == FirstOf(Search(text, DatePatternLabelled),
                         Search(text, DatePatternTextual), None)
        delay_match == Search(text, DelayPattern)
        delay == IntOf(Slice(Val(delay_match), 1, DigitRun(Val(delay_match), 1)))
        stations == found_stations(text)
        keys == {k \in 1..Len(OPERATOR_MAP) : Contains(lower(sender), OPERATOR_MAP[k][1])}
    IN  [booking_ref  |-> IF ref = None THEN None ELSE Some(upper(Val(ref))),
         price        |-> IF price = None THEN None ELSE Some(FloatOf(Val(price))),
         journey_date |-> jdate,
         delay_mins   |-> IF delay_match = None THEN None
                          ELSE IF Contains(lower(Val(delay_match)), <<"h","o","u","r">>)
                          THEN Some(60 * delay) ELSE Some(delay),
         origin       |-> IF Len(stations) >= 1 THEN Some(stations[1]) ELSE None,
         destination  |-> IF Len(stations) >= 2 THEN Some(stations[2]) ELSE None,
         operator     |-> IF keys = {} THEN None ELSE Some(OPERATOR_MAP[Min(keys)][2])]

-----------------------------------------------------------------------------
(* Message payloads.  A payload part is [mimeType, data, parts]: data is   *)
(* the optional body data, [valid, text] for base64url data that decodes   *)
(* to text or is not valid base64; parts is the optional list of parts.    *)

\* base64.urlsafe_b64decode(data).decode('utf-8', errors='ignore'):
\* [raised, body]; invalid base64 raises binascii.Error
b64decode(data) ==
    IF data.valid THEN [raised |-> FALSE, body |-> data.text]
    ELSE [raised |-> TRUE, body |-> <<>>]

\* body += <r>, with r's exception propagating
Add(acc, r) ==
    IF acc.raised THEN acc
    ELSE IF r.raised THEN [raised |-> TRUE, body |-> <<>>]
    ELSE [raised |-> FALSE, body |-> acc.body \o r.body]

RECURSIVE extract_body(_)
RECURSIVE PartsLoop(_, _, _)

\* the loop `for part in payload['parts']` from part k on, body being acc
PartsLoop(parts, k, acc) ==
    IF k > Len(parts) \/ acc.raised THEN acc
    ELSE LET part == parts[k]
         IN  IF part.mimeType = "text/plain" /\ part.data # None
             THEN PartsLoop(parts, k + 1, Add(acc, b64decode(Val(part.data))))
             ELSE IF part.parts # None
             THEN PartsLoop(parts, k + 1, Add(acc, extract_body(part)))
             ELSE PartsLoop(parts, k + 1, acc)

\* extract_body(payload): [raised, body]
extract_body(payload) ==
    LET own == IF payload.data # None THEN b64decode(Val(payload.data))
               ELSE [raised |-> FALSE, body |-> <<>>]
    IN  IF payload.parts # None THEN PartsLoop(Val(payload.parts), 1, own) ELSE own

\* a part that carries data, and a container of parts
Leaf(mime, text) == [mimeType |-> mime, data |-> Some([valid |-> TRUE, text |-> text]), parts |-> None]
Multi(mime, parts) == [mimeType |-> mime, data |-> None, parts |-> Some(parts)]

-----------------------------------------------------------------------------
(* The user's mail: the messages the provider can return for the search.   *)
(* A message is [headers, payload]; headers holds the optional From,       *)
(* Subject and Date header values.                                         *)

Msg(from, subject, date, payload) ==
    [headers |-> [from |-> from, subject |-> subject, date |-> date], payload |-> payload]

Universe == <<
    \* 1: a booking confirmation, price 45.00
    Msg(Some(<<"t","i","c","k","e","t","s","@","t","r","a","i","n","l","i","n","e",".","c","o","m">>), Some(<<"B","o","o","k","i","n","g"," ","c","o","n","f","i","r","m","a","t","i","o","n">>),
        Some(<<"M","o","n",","," ","1","1"," ","M","a","r"," ","2","0","2","4"," ","0","9",":","0","0",":","0","0"," ","+","0","0","0","0">>),
        Leaf("text/plain", <<"T","o","t","a","l"," ","£","4","5",".","0","0">>)),
    \* 2: an LNER delay notice that also states the price paid
    Msg(Some(<<"i","n","f","o","@","l","n","e","r",".","c","o",".","u","k">>), Some(<<"Y","o","u","r"," ","t","r","a","i","n"," ","w","a","s"," ","4","5"," ","m","i","n","u","t","e","s"," ","l","a","t","e">>),
        Some(<<"F","r","i",","," ","1","5"," ","M","a","r"," ","2","0","2","4"," ","1","8",":","0","0",":","0","0"," ","+","0","0","0","0">>),
        Multi("multipart/alternative",
              <<Leaf("text/plain", <<"R","e","f"," ","L","N","1","2","3","4","5","6"," ","j","o","u","r","n","e","y"," ","1","5","/","0","3","/","2","0","2","4"," ","p","a","i","d"," ","£","4","5",".","0","0">>),
                Leaf("text/html", <<"<","p",">","4","5"," ","m","i","n","u","t","e","s"," ","l","a","t","e","<","/","p",">">>)>>)),
    \* 3: the same notice without a price
    Msg(Some(<<"i","n","f","o","@","l","n","e","r",".","c","o",".","u","k">>), Some(<<"Y","o","u","r"," ","t","r","a","i","n"," ","w","a","s"," ","4","5"," ","m","i","n","u","t","e","s"," ","l","a","t","e">>),
        Some(<<"F","r","i",","," ","1","5"," ","M","a","r"," ","2","0","2","4"," ","1","8",":","0","5",":","0","0"," ","+","0","0","0","0">>),
        Leaf("text/plain", <<"R","e","f"," ","L","N","1","2","3","4","5","6"," ","j","o","u","r","n","e","y"," ","1","5","/","0","3","/","2","0","2","4">>)),
    \* 4: a refund confirmation, reference in lower case
    Msg(Some(<<"r","e","f","u","n","d","s","@","g","w","r",".","c","o","m">>), Some(<<"R","e","f","u","n","d"," ","p","r","o","c","e","s","s","e","d">>),
        Some(<<"W","e","d",","," ","1","3"," ","M","a","r"," ","2","0","2","4"," ","1","0",":","0","0",":","0","0"," ","+","0","0","0","0">>),
        Leaf("text/plain", <<"r","e","f"," ","a","b","c","1","2","3","4"," ","a","m","o","u","n","t"," ","£","1","2",".","5","0">>)),
    \* 5: a cancellation with the same reference in upper case, no journey date
    Msg(Some(<<"h","e","l","p","@","g","w","r",".","c","o","m">>), Some(<<"T","r","a","i","n"," ","c","a","n","c","e","l","l","e","d">>),
        Some(<<"T","u","e",","," ","1","2"," ","M","a","r"," ","2","0","2","4"," ","0","8",":","0","0",":","0","0"," ","+","0","0","0","0">>),
        Leaf("text/plain", <<"R","e","f"," ","A","B","C","1","2","3","4"," ","2"," ","h","o","u","r","s"," ","l","a","t","e"," ","c","o","s","t"," ","£","8","0",".","0","0"," ","L","o","n","d","o","n"," ","P","a","d","d","i","n","g","t","o","n"," ","t","o"," ","B","r","i","s","t","o","l"," ","T","e","m","p","l","e"," ","M","e","a","d","s">>)),
    \* 6: a delay notice without any reference, its date in no accepted format
    Msg(Some(<<"n","o","-","r","e","p","l","y","@","n","o","r","t","h","e","r","n","r","a","i","l","w","a","y",".","c","o",".","u","k">>), Some(<<"D","e","l","a","y","e","d"," ","s","e","r","v","i","c","e">>),
        Some(<<"M","o","n",","," ","2"," ","S","e","p"," ","2","0","2","4"," ","0","7",":","4","0",":","0","0"," ","+","0","1","0","0">>),
        Leaf("text/plain", <<"Y","o","u","r"," ","t","r","a","i","n"," ","f","r","o","m"," ","L","e","e","d","s"," ","w","a","s"," ","2","0"," ","m","i","n","s"," ","l","a","t","e"," ","o","n"," ","3"," ","S","e","p","t"," ","2","0","2","4"," ","f","a","r","e"," ","£","1","0",".","1","0">>)),
    \* 7: a refund confirmation for the LNER reference
    Msg(Some(<<"r","e","f","u","n","d","s","@","l","n","e","r",".","c","o",".","u","k">>), Some(<<"R","e","f","u","n","d"," ","c","o","n","f","i","r","m","e","d">>),
        Some(<<"M","o","n",","," ","1","8"," ","M","a","r"," ","2","0","2","4"," ","0","9",":","3","0",":","0","0"," ","+","0","0","0","0">>),
        Leaf("text/plain", <<"r","e","f","e","r","e","n","c","e",":"," ","l","n","1","2","3","4","5","6">>)),
    \* 8: an old delay notice without a price
    Msg(Some(<<"i","n","f","o","@","s","c","o","t","r","a","i","l",".","c","o",".","u","k">>), Some(<<"L","a","t","e"," ","r","u","n","n","i","n","g">>),
        Some(<<"W","e","d",","," ","1"," ","J","a","n"," ","2","0","2","0"," ","1","2",":","0","0",":","0","0"," ","+","0","0","0","0">>),
        Leaf("text/plain", <<"o","r","d","e","r"," ","Z","X","5","5","5","5","5","5"," ","3","0"," ","m","i","n"," ","l","a","t","e"," ","t","r","a","v","e","l"," ","0","1","/","0","1","/","2","0","2","0">>)),
    \* 9: a TfL delay claim, no Date header, price with three decimals
    Msg(Some(<<"n","o","r","e","p","l","y","@","t","f","l",".","g","o","v",".","u","k">>), Some(<<"D","e","l","a","y"," ","r","e","p","a","y">>), None,
        Leaf("text/plain", <<"R","e","f",":"," ","T","F","0","0","0","1","1","1","2"," ","1","6"," ","m","i","n","u","t","e","s"," ","l","a","t","e"," ","t","o","t","a","l"," ","£","3",".","1","2","5">>)),
    \* 10: a booking confirmation of a season ticket
    Msg(Some(<<"t","i","c","k","e","t","s","@","t","r","a","i","n","l","i","n","e",".","c","o","m">>), Some(<<"B","o","o","k","i","n","g"," ","c","o","n","f","i","r","m","a","t","i","o","n">>),
        Some(<<"M","o","n",","," ","4"," ","M","a","r"," ","2","0","2","4"," ","0","9",":","0","0",":","0","0"," ","+","0","0","0","0">>),
        Leaf("text/plain", <<"S","e","a","s","o","n"," ","t","i","c","k","e","t"," ","t","o","t","a","l"," ","£","3","5","0",".","0","0">>)),
    \* 11: a delay notice for a journey on a free ticket: the price is zero
    Msg(Some(<<"i","n","f","o","@","g","w","r",".","c","o","m">>), Some(<<"Y","o","u","r"," ","t","r","a","i","n"," ","w","a","s"," ","d","e","l","a","y","e","d">>),
        Some(<<"T","h","u",","," ","1","4"," ","M","a","r"," ","2","0","2","4"," ","1","8",":","0","0",":","0","0"," ","+","0","0","0","0">>),
        Leaf("text/plain", <<"R","e","f"," ","G","W","7","6","5","4","3","2"," ","3","5"," ","m","i","n","u","t","e","s"," ","l","a","t","e"," ","j","o","u","r","n","e","y"," ","1","4","/","0","3","/","2","0","2","4"," ","p","a","i","d"," ","£","0">>))
>>

\* headers.get(name, '')
Header(h) == IF h = None THEN <<>> ELSE Val(h)

\* the body of the loop over the messages, for one fetched message:
\* [raised, email], email being the email_data dictionary
email_data(date, sender, subject, category, data) ==
    [date |-> date, sender |-> sender, subject |-> subject, category |-> category,
     booking_ref |-> data.booking_ref, price |-> data.price,
     journey_date |-> data.journey_date, delay_mins |-> data.delay_mins,
     origin |-> data.origin, destination |-> data.destination, operator |-> data.operator]

Processed(sender, subject, date, b) ==
    IF b.raised THEN [raised |-> TRUE, email |-> None]
    ELSE [raised |-> FALSE,
          email |-> Some(email_data(date, sender, subject,
                                    categorise_email(subject, b.body, sender),
                                    extract_data(subject, b.body, sender)))]

email_of(full_msg) ==
    Processed(Header(full_msg.headers.from), Header(full_msg.headers.subject),
              Header(full_msg.headers.date), extract_body(full_msg.payload))

\* email_of for each message of the Universe, computed once
Fetched == [i \in 1..Len(Universe) |-> email_of(Universe[i])]

-----------------------------------------------------------------------------
(* The scan pipeline, after the loop over the messages.                    *)

\* Python truthiness of an optional number, and of an optional string
TruthyNum(x) == x # None /\ Val(x) # 0
TruthyStr(x) == x # None /\ Val(x) # <<>>

DELAY_CATEGORIES == {"delay", "delay_claim", "cancellation"}

\* the emails list, when every message was fetched and processed
emails_of(ids) == [k \in 1..Len(ids) |-> Val(Fetched[ids[k]].email)]

\* A faulty variant of OfCategory: every email lands in every list.
OfAnyCategory(emails, cats) == emails

\* the emails of the given categories, in arrival order
OfCategory(emails, cats) == SelectSeq(emails, LAMBDA e : e.category \in cats)

\* A faulty variant of refunded_refs: only the first refund email counts.
refunded_refs_of_first(refunds) ==
    IF refunds # <<>> /\ TruthyStr(refunds[1].booking_ref)
    THEN {upper(Val(refunds[1].booking_ref))}
    ELSE {}

\* the upper-cased booking references of the refund emails
refunded_refs(refunds) ==
    {upper(Val(refunds[k].booking_ref)) : k \in {j \in 1..Len(refunds) : TruthyStr(refunds[j].booking_ref)}}

\* A faulty variant of claimed: no delay is ever dropped.
never_claimed(delay, refs) == FALSE

\* `if ref and ref in refunded_refs: continue`
claimed(delay, refs) ==
    LET ref == IF TruthyStr(delay.booking_ref) THEN upper(Val(delay.booking_ref)) ELSE <<>>
    IN  ref # <<>> /\ ref \in refs

confidence_of(delay) ==
    IF TruthyStr(delay.booking_ref) /\ TruthyNum(delay.delay_mins) /\ TruthyNum(delay.price) THEN "high"
    ELSE IF TruthyStr(delay.booking_ref) /\ TruthyNum(delay.delay_mins) THEN "medium"
    ELSE "low"

\* delay.get('operator', 'Unknown'): extract_data sets no key for a field it
\* did not detect
operator_of(delay) == IF delay.operator = None THEN Some("Unknown") ELSE delay.operator

\* the dictionary appended to opportunities for one unclaimed delay
opportunity(delay, journey_date, refund, dl) ==
    [date |-> delay.date, journey_date |-> journey_date, operator |-> operator_of(delay),
     booking_ref |-> delay.booking_ref, origin |-> delay.origin,
     destination |-> delay.destination, price |-> delay.price,
     delay_mins |-> delay.delay_mins,
     refund_amount |-> refund[1], refund_pct |-> refund[2],
     deadline |-> dl.deadline, deadline_status |-> dl.status,
     confidence |-> confidence_of(delay),
     subject |-> Slice(delay.subject, 1, Min({80, Len(delay.subject)})),
     category |-> delay.category]

\* delay.get('journey_date') or delay.get('date')
journey_date_of(delay) ==
    IF TruthyStr(delay.journey_date) THEN delay.journey_date ELSE Some(delay.date)

opportunity_of(delay, clock) ==
    opportunity(delay, journey_date_of(delay),
                calculate_refund(delay.delay_mins, delay.price, operator_of(delay)),
                get_claim_deadline(operator_of(delay), journey_date_of(delay), clock))

\* the times at which the requests are served
NowChoices == {[ord |-> ymd2ord(2024, 4, 1), secs |-> 43200],
               [ord |-> ymd2ord(2026, 11, 5), secs |-> 43200]}

\* opportunity_of for every email of the Universe and every time, computed once
Opportunity ==
    [e \in {Val(Fetched[i].email) : i \in {j \in 1..Len(Universe) : ~Fetched[j].raised}},
     c \in NowChoices |-> opportunity_of(e, c)]

\* the opportunities list before it is sorted
opportunities_of(delays, refunds, clock) ==
    LET refs == refunded_refs(refunds)
        kept == SelectSeq(delays, LAMBDA d : ~claimed(d, refs))
    IN  [k \in 1..Len(kept) |-> Opportunity[kept[k], clock]]

\* the sort key of an opportunity
sort_key(x) ==
    << -(IF TruthyNum(x.refund_amount) THEN Val(x.refund_amount) ELSE 0),
       IF x.confidence = "high" THEN 0 ELSE IF x.confidence = "medium" THEN 1 ELSE 2,
       IF x.deadline_status = "active" THEN 0 ELSE 1 >>

\* tuple comparison of two keys
KeyLess(a, b) ==
    \/ a[1] < b[1]
    \/ a[1] = b[1] /\ a[2] < b[2]
    \/ a[1] = b[1] /\ a[2] = b[2] /\ a[3] < b[3]

\* A faulty variant of sort_opportunities: equal keys in reverse order.
sort_ties_reversed(opps) ==
    LET n == Len(opps)
        before(i, j) == \/ KeyLess(sort_key(opps[i]), sort_key(opps[j]))
                        \/ sort_key(opps[i]) = sort_key(opps[j]) /\ i > j
        place(i) == 1 + Cardinality({j \in 1..n : before(j, i)})
    IN  [r \in 1..n |-> opps[CHOOSE i \in 1..n : place(i) = r]]

\* list.sort(key=...): ascending by key, equal keys in their original order
sort_opportunities(opps) ==
    LET n == Len(opps)
        before(i, j) == \/ KeyLess(sort_key(opps[i]), sort_key(opps[j]))
                        \/ sort_key(opps[i]) = sort_key(opps[j]) /\ i < j
        place(i) == 1 + Cardinality({j \in 1..n : before(j, i)})
    IN  [r \in 1..n |-> opps[CHOOSE i \in 1..n : place(i) = r]]

RECURSIVE Sum(_)
Sum(ns) == IF ns = <<>> THEN 0 ELSE Head(ns) + Sum(Tail(ns))

\* sum(f(x) for x in items if keep(x))
SumOver(items, keep(_), f(_)) ==
    Sum([k \in 1..Len(items) |-> IF keep(items[k]) THEN f(items[k]) ELSE 0])

\* round() of a non-negative number of thousandths to the nearest whole
\* multiple of `unit` thousandths, ties to the even multiple
round_half_even(n, unit) ==
    LET q == n \div unit
        r == n % unit
    IN  IF 2 * r < unit THEN q
        ELSE IF 2 * r > unit THEN q + 1
        ELSE IF q % 2 = 0 THEN q ELSE q + 1

\* A faulty variant of operators_seen: the keys, the latest inserted first.
RECURSIVE operators_seen_latest_first(_)
operators_seen_latest_first(delays) ==
    IF delays = <<>> THEN <<>>
    ELSE LET front == operators_seen_latest_first(Slice(delays, 1, Len(delays) - 1))
             op    == operator_of(delays[Len(delays)])
         IN  IF \E k \in 1..Len(front) : front[k] = op THEN front ELSE <<op>> \o front

\* operator_delays, as the list of its keys in insertion order
RECURSIVE operators_seen(_)
operators_seen(delays) ==
    IF delays = <<>> THEN <<>>
    ELSE LET front == operators_seen(Slice(delays, 1, Len(delays) - 1))
             op    == operator_of(delays[Len(delays)])
         IN  IF \E k \in 1..Len(front) : front[k] = op THEN front ELSE Append(front, op)

recommendations_of(total_spend, delays) ==
    LET ops      == operators_seen(delays)
        count(o) == Cardinality({k \in 1..Len(delays) : operator_of(delays[k]) = o})
        top      == CHOOSE k \in 1..Len(ops) :
                        /\ \A j \in 1..Len(ops) : count(ops[j]) <= count(ops[k])
                        /\ \A j \in 1..(k - 1) : count(ops[j]) < count(ops[k])
        railcard == IF total_spend > 300000
                    THEN <<[kind |-> "railcard",
                            spent |-> round_half_even(total_spend, 1000),
                            savings |-> round_half_even(total_spend * 34, 100000)]>>
                    ELSE <<>>
        worst    == IF ops # <<>> /\ count(ops[top]) >= 2
                    THEN <<[kind |-> "alternatives", operator |-> ops[top],
                            count |-> count(ops[top])]>>
                    ELSE <<>>
    IN  railcard \o worst

\* session['results'] for the emails of one scan, read at time `clock`
price_of(b) == Val(b.price)
amount_of(o) == Val(o.refund_amount)

summary(emails, bookings, delays, opportunities, n_refunds) ==
    [total_emails |-> Len(emails), total_bookings |-> Len(bookings),
     total_delays |-> Len(delays), total_refunds |-> n_refunds,
     total_spend |->
         round2(SumOver(bookings, LAMBDA b : TruthyNum(b.price), price_of), 100),
     total_potential |->
         round2(SumOver(opportunities,
                        LAMBDA o : TruthyNum(o.refund_amount) /\ o.deadline_status # "expired",
                        amount_of), 100),
     total_expired |->
         round2(SumOver(opportunities,
                        LAMBDA o : TruthyNum(o.refund_amount) /\ o.deadline_status = "expired",
                        amount_of), 100),
     opportunities |-> opportunities,
     bookings |-> Slice(bookings, 1, Min({20, Len(bookings)})),
     recommendations |->
         recommendations_of(SumOver(bookings, LAMBDA b : TruthyNum(b.price), price_of), delays)]

summary_of(emails, clock) ==
    summary(emails, OfCategory(emails, {"booking"}), OfCategory(emails, DELAY_CATEGORIES),
            sort_opportunities(opportunities_of(OfCategory(emails, DELAY_CATEGORIES),
                                                OfCategory(emails, {"refund"}), clock)),
            Len(OfCategory(emails, {"refund"})))

-----------------------------------------------------------------------------
(* The session and its requests.                                           *)

MaxMsgs == 3

\* the sequences of length n of distinct messages of the set ms
Orderings(ms, n) ==
    {ids \in [1..n -> ms] : \A i, j \in 1..n : i # j => ids[i] # ids[j]}

\* four delay emails, two of LNER and two of GWR, in every order; a claimed
\* cancellation, its refund, and two unclaimed delays; the season ticket and
\* the four delay emails
LongMailboxes == Orderings({2, 3, 5, 11}, 4) \cup {<<5, 4, 2, 9>>, <<10, 5, 2, 11, 3>>}

\* the search results: up to MaxMsgs distinct messages in any order, or one
\* of the long mailboxes
Mailboxes ==
    UNION {Orderings(1..Len(Universe), n) : n \in 0..MaxMsgs} \cup LongMailboxes

\* a mailbox as a number, its messages being the digits, the first the lowest
MailboxBase == Len(Universe) + 1

RECURSIVE MailboxCode(_)
MailboxCode(ids) == IF ids = <<>> THEN 0 ELSE Head(ids) + MailboxBase * MailboxCode(Tail(ids))

RECURSIVE MailboxOf(_)
MailboxOf(code) ==
    IF code = 0 THEN <<>> ELSE <<code % MailboxBase>> \o MailboxOf(code \div MailboxBase)

RECURSIVE Power(_, _)
Power(b, n) == IF n = 0 THEN 1 ELSE b * Power(b, n - 1)

\* the sequence ids is one of Mailboxes, and each of its messages can be
\* fetched and processed
CanScan(ids) ==
    /\ \A k \in 1..Len(ids) : ids[k] \in 1..Len(Universe) /\ ~Fetched[ids[k]].raised
    /\ \A i, j \in 1..Len(ids) : i # j => ids[i] # ids[j]
    /\ Len(ids) <= MaxMsgs \/ ids \in LongMailboxes

\* the ScanSummary of every such mailbox, by MailboxCode, at every time,
\* computed once
Summary ==
    [code \in 0..(Power(MailboxBase, IF MaxMsgs > 5 THEN MaxMsgs ELSE 5) - 1) |->
        IF CanScan(MailboxOf(code))
        THEN [c \in NowChoices |-> summary_of(emails_of(MailboxOf(code)), c)]
        ELSE <<>>]

session == <<credentials, oauth_state, results>>
world == <<mailbox, now>>

\* a flashed message: its category and, for an exception caught by scan, where
\* it was raised (0: the search; k: fetching or processing the k-th message)
Flash(category, raised_at) == Some([category |-> category, raised_at |-> raised_at])

Redirect(target, flash) == [does |-> "redirect", target |-> target, flash |-> flash]
Render(page, shown) == [does |-> "render", page |-> page, shown |-> shown]

Init ==
    /\ mailbox \in Mailboxes
    /\ now \in NowChoices
    /\ credentials = FALSE
    /\ oauth_state = FALSE
    /\ results = None
    /\ response = None
    /\ call = None
    /\ ret = None

Index ==
    /\ response' = Render("index.html", [connected |-> credentials])
    /\ UNCHANGED <<world, session, call, ret>>

Connect ==
    /\ oauth_state' = TRUE
    /\ response' = Redirect("auth_url", None)
    /\ UNCHANGED <<world, credentials, results, call, ret>>

\* fetch_token succeeds
OAuthCallback ==
    /\ credentials' = TRUE
    /\ response' = Redirect("index", Flash("success", None))
    /\ UNCHANGED <<world, oauth_state, results, call, ret>>

\* fetch_token raises: the request ends in the framework's error response
OAuthCallbackFails ==
    /\ response' = [does |-> "error"]
    /\ UNCHANGED <<world, session, call, ret>>

\* A faulty variant of Disconnect: only the credentials are removed.
Disconnect_keeping_results ==
    /\ credentials' = FALSE
    /\ response' = Redirect("index", Flash("info", None))
    /\ UNCHANGED <<world, oauth_state, results, call, ret>>

Disconnect ==
    /\ credentials' = FALSE
    /\ results' = None
    /\ response' = Redirect("index", Flash("info", None))
    /\ UNCHANGED <<world, oauth_state, call, ret>>

ScanNotConnected ==
    /\ ~credentials
    /\ response' = Redirect("index", Flash("error", None))
    /\ UNCHANGED <<world, session, call, ret>>

\* the search and every fetch succeed
Scan ==
    /\ credentials
    /\ \A k \in 1..Len(mailbox) : ~Fetched[mailbox[k]].raised
    /\ results' = Some(Summary[MailboxCode(mailbox)][now])
    /\ response' = Redirect("results", None)
    /\ UNCHANGED <<world, credentials, oauth_state, call, ret>>

\* A faulty variant of ScanFails: the handlers also drop the stored results.
ScanFails_dropping_results ==
    /\ credentials
    /\ results' = None
    /\ \E k \in 0..Len(mailbox) :
           response' = Redirect("index", Flash("error", Some(k)))
    /\ UNCHANGED <<world, credentials, oauth_state, call, ret>>

\* the search (k = 0) or the fetch of the k-th message raises: the exception
\* leaves the loop and is caught by the handlers around the whole scan
ScanFails ==
    /\ credentials
    /\ \E k \in 0..Len(mailbox) :
           /\ \A j \in 1..(k - 1) : ~Fetched[mailbox[j]].raised
           /\ response' = Redirect("index", Flash("error", Some(k)))
    /\ UNCHANGED <<world, session, call, ret>>

Results ==
    /\ response' = IF results = None THEN Redirect("index", Flash("info", None))
                   ELSE Render("results.html", [results |-> Val(results)])
    /\ UNCHANGED <<world, session, call, ret>>

Next ==
    \/ Index
    \/ Connect
    \/ OAuthCallback
    \/ OAuthCallbackFails
    \/ Disconnect
    \/ ScanNotConnected
    \/ Scan
    \/ ScanFails
    \/ Results

Spec == Init /\ [][Next]_vars
-----------------------------------------------------------------------------
(* calculate_refund on its own: every call with a delay up to MaxDelay     *)
(* minutes, a price up to MaxPrice thousandths of a pound or one of the    *)
(* sample prices, and one of the operators below.                          *)

MaxDelay == 121
MaxPrice == 60

Delays == {None} \cup {Some(d) : d \in 0..MaxDelay}
SamplePrices == {3125, 10100, 12345, 45000, 45125, 80000}
Prices == {None} \cup {Some(p) : p \in (0..MaxPrice) \cup SamplePrices}
Operators == {None, Some("Unknown"), Some("Northern"), Some("National Express"),
              Some("LNER"), Some("GWR"), Some("TfL")}

\* no request has been served; the function's caller passes the time itself
Idle ==
    /\ mailbox = <<>>
    /\ now = CHOOSE c \in NowChoices : TRUE
    /\ credentials = FALSE
    /\ oauth_state = FALSE
    /\ results = None
    /\ response = None

InitRefund == Idle /\ call = None /\ ret = None

\* one call, from the idle state
CallRefund ==
    /\ call = None
    /\ \E d \in Delays, p \in Prices, o \in Operators :
           /\ call' = [fn |-> "calculate_refund", delay_mins |-> d, price |-> p, operator |-> o]
           /\ ret' = calculate_refund(d, p, o)
    /\ UNCHANGED <<world, session, response>>

NextRefund == CallRefund

SpecRefund == InitRefund /\ [][NextRefund]_vars

-----------------------------------------------------------------------------
(* get_claim_deadline on its own: journey dates written in each accepted   *)
(* format, ISO timestamps, strings in no format, read at several times.    *)

Years == {2020, 2024}

\* <<year, month, day>> of the journeys; the last two are so late that the
\* deadline may fall after the last representable date
JourneyDays ==
    UNION {{<<y, m, 1>>, <<y, m, 15>>, <<y, m, DaysInMonth(y, m)>>} : y \in Years, m \in 1..12}
    \cup {<<9999, 12, 3>>, <<9999, 12, 31>>}

\* a number in decimal, without padding
Decimal(n) ==
    IF n < 10 THEN Digits(n, 1) ELSE IF n < 100 THEN Digits(n, 2)
    ELSE IF n < 1000 THEN Digits(n, 3) ELSE Digits(n, 4)

\* the ways of writing the day t in the five formats, as <<text, t>>
Written(t) ==
    LET y == t[1]   m == t[2]   d == t[3]
    IN  {<<Digits(d, 2) \o <<"/">> \o Digits(m, 2) \o <<"/">> \o Digits(y, 4), t>>,
         <<Decimal(d) \o <<"/">> \o Decimal(m) \o <<"/">> \o Digits(y, 4), t>>,
         <<Digits(d, 2) \o <<"-">> \o Digits(m, 2) \o <<"-">> \o Digits(y, 4), t>>,
         <<Digits(y, 4) \o <<"-">> \o Digits(m, 2) \o <<"-">> \o Digits(d, 2), t>>,
         <<Decimal(d) \o <<" ">> \o MONTH_ABBR[m] \o <<" ">> \o Digits(y, 4), t>>,
         <<Decimal(d) \o <<" ">> \o upper(MONTH_ABBR[m]) \o <<" ">> \o Digits(y, 4), t>>,
         <<Decimal(d) \o <<" ">> \o MONTH_NAME[m] \o <<" ">> \o Digits(y, 4), t>>,
         <<Decimal(d) \o <<" ">> \o upper(MONTH_NAME[m]) \o <<" ">> \o Digits(y, 4), t>>}

WrittenDates == UNION {Written(t) : t \in JourneyDays}

IsoStrings == {<<"2","0","2","4","-","0","3","-","1","5","T","1","0",":","0","0",":","0","0">>, <<"2","0","2","4","-","0","3","-","1","5","T","1","0",":","0","0",":","0","0","Z">>, <<"2","0","2","4","-","0","3","-","1","5","T","1","0",":","0","0",":","0","0","+","0","1",":","0","0">>,
               <<"2","0","2","4","-","0","3","-","1","5","T","0","0",":","0","0">>}

\* strings that are a date in none of the formats
JunkStrings == {<<"g","a","r","b","a","g","e">>, <<"3"," ","S","e","p","t"," ","2","0","2","4">>, <<"T","u","e",","," ","1","2"," ","M","a","r"," ","2","0","2","4"," ","0","8",":","0","0",":","0","0"," ","+","0","0","0","0">>,
                <<"M","o","n",","," ","2"," ","S","e","p"," ","2","0","2","4"," ","0","7",":","4","0",":","0","0"," ","+","0","1","0","0">>, <<"3","1","/","0","2","/","2","0","2","4">>, <<"2","0","2","4","-","1","3","-","0","1">>,
                <<"1","5","/","0","3","/","2","4">>, <<"1","5",".","0","3",".","2","0","2","4">>, <<"1","5","/","0","3","/","2","0","2","4"," ","1","0",":","0","0">>, <<"M","a","r","c","h"," ","1","5",","," ","2","0","2","4">>,
                <<"2","0","2","4","-","0","3","-","1","5","T","j","u","n","k">>, <<"T">>}

JourneyStrings ==
    {None, Some(<<>>)} \cup {Some(w[1]) : w \in WrittenDates}
    \cup {Some(x) : x \in IsoStrings \cup JunkStrings}

Clocks == {[ord |-> ymd2ord(2020, 1, 30), secs |-> 0],
           [ord |-> ymd2ord(2024, 4, 12), secs |-> 0],
           [ord |-> ymd2ord(2024, 4, 12), secs |-> 1],
           [ord |-> ymd2ord(2024, 4, 14), secs |-> 0],
           [ord |-> ymd2ord(2024, 4, 14), secs |-> 1],
           [ord |-> ymd2ord(2026, 11, 5), secs |-> 43200]}

InitDeadline == Idle /\ call = None /\ ret = None

\* one call, from the idle state
CallDeadline ==
    /\ call = None
    /\ \E o \in Operators, j \in JourneyStrings, c \in Clocks :
           /\ call' = [fn |-> "get_claim_deadline", operator |-> o,
                       journey_date_str |-> j, clock |-> c]
           /\ ret' = get_claim_deadline(o, j, c)
    /\ UNCHANGED <<world, session, response>>

NextDeadline == CallDeadline

SpecDeadline == InitDeadline /\ [][NextDeadline]_vars
-----------------------------------------------------------------------------
(* categorise_email on its own: subjects and bodies with keywords of every *)
(* category, in either case, alone and together, and three senders.        *)

Subjects == {<<>>, <<"D","e","l","a","y"," ","R","e","p","a","y">>, <<"Y","o","u","r"," ","R","E","F","U","N","D">>, <<"T","r","a","i","n"," ","c","a","n","c","e","l","l","e","d">>, <<"R","u","n","n","i","n","g"," ","l","a","t","e">>,
             <<"B","o","o","k","i","n","g"," ","C","o","n","f","i","r","m","a","t","i","o","n">>, <<"J","o","u","r","n","e","y"," ","h","i","s","t","o","r","y">>, <<"P","a","y","m","e","n","t"," ","r","e","c","e","i","p","t">>,
             <<"H","e","l","l","o">>, <<"Y","o","u","r">>, <<"E","-","T","i","c","k","e","t">>, <<"S","e","r","v","i","c","e">>, <<"D","e","l">>}

Bodies == {<<>>, <<"c","l","a","i","m"," ","a","p","p","r","o","v","e","d">>, <<"m","o","n","e","y"," ","b","a","c","k"," ","a","n","d"," ","d","e","l","a","y"," ","c","o","m","p","e","n","s","a","t","i","o","n">>,
           <<"D","i","s","r","u","p","t","i","o","n",":"," ","t","r","a","i","n","s"," ","n","o","t"," ","r","u","n","n","i","n","g">>, <<"d","i","s","r","u","p","t","i","o","n">>, <<"y","o","u","r"," ","t","i","c","k","e","t"," ","i","s"," ","c","a","n","c","e","l","l","e","d">>,
           <<"o","y","s","t","e","r"," ","s","t","a","t","e","m","e","n","t"," ","a","n","d"," ","i","n","v","o","i","c","e">>, <<"i","n","v","o","i","c","e">>, <<"n","o","t","h","i","n","g"," ","h","e","r","e">>, <<"a","y"," ","r","e","p","a","y">>,
           <<"r","e","f","u","n","d"," ","f","o","r"," ","d","e","l","a","y","e","d"," ","t","r","a","i","n">>, <<"c","o","r","r","e","l","a","t","e","d">>, <<"a","m","o","u","n","t"," ","c","r","e","d","i","t","e","d">>,
           <<"b","o","o","k","i","n","g"," ","r","e","f","e","r","e","n","c","e"," ","A","B","1","2","C","D">>}

Senders == {<<>>, <<"L","N","E","R"," ","<","n","o","r","e","p","l","y","@","l","n","e","r",".","c","o",".","u","k",">">>, <<"r","e","f","u","n","d","s","@","g","w","r",".","c","o","m">>}

InitClassify == Idle /\ call = None /\ ret = None

\* one call, from the idle state
CallClassify ==
    /\ call = None
    /\ \E su \in Subjects, b \in Bodies, se \in Senders :
           /\ call' = [fn |-> "categorise_email", subject |-> su, body |-> b, sender |-> se]
           /\ ret' = Some(categorise_email(su, b, se))
    /\ UNCHANGED <<world, session, response>>

NextClassify == CallClassify

SpecClassify == InitClassify /\ [][NextClassify]_vars

-----------------------------------------------------------------------------
(* extract_data on its own: subjects and bodies naming stations in either  *)
(* order and case and delays in every unit.                                *)

ExtractSubjects == {<<>>, <<"D","e","l","a","y","e","d",":"," ","L","e","e","d","s">>, <<"Y","o","u","r"," ","j","o","u","r","n","e","y"," ","t","o"," ","O","x","f","o","r","d">>, <<"2"," ","h","o","u","r","s"," ","l","a","t","e">>,
                    <<"T","r","i","p"," ","u","p","d","a","t","e">>, <<"Y","O","R","K"," ","s","e","r","v","i","c","e"," ","5"," ","m","i","n"," ","d","e","l","a","y">>}

ExtractBodies == {<<>>, <<"L","o","n","d","o","n"," ","P","a","d","d","i","n","g","t","o","n"," ","t","o"," ","B","r","i","s","t","o","l"," ","T","e","m","p","l","e"," ","M","e","a","d","s">>,
                  <<"B","r","i","s","t","o","l"," ","T","e","m","p","l","e"," ","M","e","a","d","s"," ","t","o"," ","L","o","n","d","o","n"," ","P","a","d","d","i","n","g","t","o","n">>, <<"o","n","l","y"," ","L","e","e","d","s"," ","t","o","d","a","y">>,
                  <<"f","r","o","m"," ","y","o","r","k"," ","t","o"," ","L","E","E","D","S"," ","4","5"," ","m","i","n","u","t","e","s"," ","l","a","t","e">>, <<"n","o"," ","s","t","a","t","i","o","n"," ","h","e","r","e">>,
                  <<"r","e","a","d","i","n","g"," ","y","o","u","r"," ","e","m","a","i","l"," ","i","n"," ","N","e","w"," ","Y","o","r","k">>, <<"P","r","e","s","t","o","n",","," ","C","r","e","w","e"," ","a","n","d"," ","L","o","n","d","o","n"," ","E","u","s","t","o","n">>,
                  <<"2"," ","h","r","s"," ","l","a","t","e"," ","a","t"," ","C","r","e","w","e">>, <<"1"," ","h","o","u","r"," ","d","e","l","a","y">>, <<"3"," ","H","o","u","r","s"," "," ","l","a","t","e">>, <<"9","0"," ","m","i","n","s"," ","l","a","t","e">>,
                  <<"1","5","m","i","n"," ","d","e","l","a","y">>, <<"2","0"," ","m","i","n","u","t","e","s"," ","e","a","r","l","y">>, <<"1"," ","h","r"," ","d","e","l","a","y">>, <<"1","0"," ","m","i","n","u","t","e","l","a","t","e">>,
                  <<"1","H","R"," ","L","A","T","E">>, <<"a","n"," ","h","o","u","r"," ","l","a","t","e">>, <<"2","5"," ","M","i","n","u","t","e"," ","D","e","l","a","y"," ","f","r","o","m"," ","C","a","m","b","r","i","d","g","e">>}

ExtractSenders == {<<>>, <<"L","N","E","R"," ","<","n","o","r","e","p","l","y","@","l","n","e","r",".","c","o",".","u","k",">">>}

InitExtract == Idle /\ call = None /\ ret = None

\* one call, from the idle state
CallExtract ==
    /\ call = None
    /\ \E su \in ExtractSubjects, b \in ExtractBodies, se \in ExtractSenders :
           /\ call' = [fn |-> "extract_data", subject |-> su, body |-> b, sender |-> se]
           /\ ret' = extract_data(su, b, se)
    /\ UNCHANGED <<world, session, response>>

NextExtract == CallExtract

SpecExtract == InitExtract /\ [][NextExtract]_vars

-----------------------------------------------------------------------------
(* extract_body on its own: single-part payloads and containers of up to   *)
(* MaxParts parts, each a leaf or a container of leaves.                   *)

MaxParts == 2

PlainA == Leaf("text/plain", <<"4","5"," ","m","i","n","u","t","e","s"," ","l","a","t","e"," ">>)
PlainB == Leaf("text/plain", <<"R","e","f"," ","L","N","1","2","3","4","5","6">>)
Html == Leaf("text/html", <<"<","p",">","p","a","i","d"," ","£","4","5",".","0","0","<","/","p",">">>)

Leaves == {PlainA, PlainB, Html}

\* the sequences of 0 to n elements of the set S
UpTo(S, n) == UNION {[1..k -> S] : k \in 0..n}

Containers(S) == {Multi("multipart/mixed", ps) : ps \in UpTo(S, MaxParts)}

\* payloads of other shapes: a text/plain part without data, and data that
\* is not valid base64, alone and after a part that is
Undecodable == [mimeType |-> "text/plain", data |-> Some([valid |-> FALSE, text |-> <<>>]), parts |-> None]

SamplePayloads ==
    {[mimeType |-> "text/plain", data |-> None, parts |-> None],
     Multi("multipart/mixed", <<[mimeType |-> "text/plain", data |-> None, parts |-> None], PlainB>>),
     Undecodable,
     Multi("multipart/mixed", <<PlainA, Undecodable>>),
     Multi("multipart/mixed", <<PlainA, Multi("multipart/alternative", <<Undecodable, PlainB>>)>>)}

Payloads == Leaves \cup Containers(Leaves \cup Containers(Leaves)) \cup SamplePayloads

InitBody == Idle /\ call = None /\ ret = None

\* one call, from the idle state
CallBody ==
    /\ call = None
    /\ \E p \in Payloads :
           /\ call' = [fn |-> "extract_body", payload |-> p]
           /\ ret' = extract_body(p)
    /\ UNCHANGED <<world, session, response>>

NextBody == CallBody

SpecBody == InitBody /\ [][NextBody]_vars

-----------------------------------------------------------------------------
(* Properties of the scan, stated over the emails of the scanned mailbox.  *)

\* the enriched emails of the mailbox, in arrival order
Scanned == [k \in 1..Len(mailbox) |-> Val(Fetched[mailbox[k]].email)]

IsCandidate(e) == e.category \in {"delay", "delay_claim", "cancellation"}

HasRef(e) == e.booking_ref # None /\ Val(e.booking_ref) # <<>>

\* some refund email of the scan carries the same reference, letter case apart
AlreadyClaimed(e) ==
    /\ HasRef(e)
    /\ \E j \in 1..Len(Scanned) :
           /\ Scanned[j].category = "refund"
           /\ HasRef(Scanned[j])
           /\ upper(Val(Scanned[j].booking_ref)) = upper(Val(e.booking_ref))

\* the opportunity o was built from the email e
BuiltFrom(o, e) ==
    /\ o.date = e.date
    /\ o.subject = e.subject
    /\ o.booking_ref = e.booking_ref
    /\ o.category = e.category

\* C1: whatever the arrival order, the opportunities list holds exactly one
\* opportunity for each delay-candidate that no refund email of the scan
\* matches by upper-cased booking_ref (or that has no booking_ref), none for a
\* delay-candidate that a refund email matches, and nothing else.
C1_OnePerUnclaimedDelay ==
    results # None =>
        LET opps == Val(results).opportunities
        IN  /\ \A k \in 1..Len(Scanned) :
                   IsCandidate(Scanned[k]) =>
                       Cardinality({i \in 1..Len(opps) : BuiltFrom(opps[i], Scanned[k])})
                           = IF AlreadyClaimed(Scanned[k]) THEN 0 ELSE 1
            /\ \A i \in 1..Len(opps) :
                   \E k \in 1..Len(Scanned) :
                       IsCandidate(Scanned[k]) /\ BuiltFrom(opps[i], Scanned[k])

\* C1 happens: the cancellation with "Ref ABC1234" arrives first, the refund
\* with "ref abc1234" after it, and only the third message, a delay without a
\* reference, is an opportunity.
C1_Witness ==
    /\ results # None
    /\ mailbox = <<5, 4, 6>>
    /\ Len(Val(results).opportunities) = 1
    /\ BuiltFrom(Val(results).opportunities[1], Scanned[3])

\* the booking email and the delay email of the end-to-end example
IsTheBooking(e) ==
    e.category = "booking" /\ e.price = Some(45000) /\ e.delay_mins = None

IsTheDelay(e) ==
    /\ IsCandidate(e)
    /\ e.delay_mins = Some(45)
    /\ e.booking_ref = Some(<<"L","N","1","2","3","4","5","6">>)
    /\ e.journey_date = Some(<<"1","5","/","0","3","/","2","0","2","4">>)
    /\ Contains(lower(e.sender), <<"l","n","e","r">>)
    /\ Contains(lower(e.subject), <<"4","5"," ","m","i","n","u","t","e","s"," ","l","a","t","e">>)

TheExample ==
    /\ results # None
    /\ Len(Scanned) = 2
    /\ \E i, j \in 1..2 : i # j /\ IsTheBooking(Scanned[i]) /\ IsTheDelay(Scanned[j])

TheExampleOutcome ==
    LET r == Val(results)
    IN  /\ Len(r.opportunities) = 1
        /\ r.opportunities[1].confidence = "high"
        /\ r.opportunities[1].refund_amount = Some(22500)
        /\ r.opportunities[1].refund_pct = Some(50)
        /\ r.opportunities[1].deadline_status \in {"expired", "active"}
        /\ r.total_spend = 45000

\* C2 as the claim states it: a scan over one booking email (45.00) and one
\* LNER delay email ("45 minutes late", LN123456, 15/03/2024) gives one
\* opportunity: high, 22.50, 50, expired or active, and total_spend 45.00.
C2_AsStated == TheExample => TheExampleOutcome

\* C2, amended: the same, when the delay email itself states the price 45.00.
C2_EndToEnd ==
    (TheExample /\ \E j \in 1..2 : IsTheDelay(Scanned[j]) /\ Scanned[j].price = Some(45000))
        => TheExampleOutcome

\* C2 happens: the booking, then the delay notice with its price, scanned
\* after the deadline has passed.
C2_Witness ==
    /\ TheExample
    /\ mailbox = <<1, 2>>
    /\ Val(results).opportunities[1].refund_amount = Some(22500)
    /\ Val(results).opportunities[1].deadline_status = "expired"

\* C6: in every opportunity of every stored result, refund_amount and
\* refund_pct are both present or both absent.
C6_AmountAndPctTogether ==
    results # None =>
        \A i \in 1..Len(Val(results).opportunities) :
            LET o == Val(results).opportunities[i]
            IN  (o.refund_amount = None) <=> (o.refund_pct = None)

\* C6 happens: a result with one opportunity that has both and one that has
\* neither.
C6_Witness ==
    /\ results # None
    /\ \E i, j \in 1..Len(Val(results).opportunities) :
           /\ Val(results).opportunities[i].refund_amount # None
           /\ Val(results).opportunities[i].refund_pct # None
           /\ Val(results).opportunities[j].refund_amount = None
           /\ Val(results).opportunities[j].refund_pct = None

\* the three components of the ordering
AmountOrZero(o) == IF o.refund_amount = None THEN 0 ELSE Val(o.refund_amount)
ConfidenceRank(o) == IF o.confidence = "high" THEN 0 ELSE IF o.confidence = "medium" THEN 1 ELSE 2
StatusRank(o) == IF o.deadline_status = "active" THEN 0 ELSE 1

SameKey(a, b) ==
    /\ AmountOrZero(a) = AmountOrZero(b)
    /\ ConfidenceRank(a) = ConfidenceRank(b)
    /\ StatusRank(a) = StatusRank(b)

\* a comes strictly before b in the ordering
Precedes(a, b) ==
    \/ AmountOrZero(a) > AmountOrZero(b)
    \/ AmountOrZero(a) = AmountOrZero(b) /\ ConfidenceRank(a) < ConfidenceRank(b)
    \/ /\ AmountOrZero(a) = AmountOrZero(b)
       /\ ConfidenceRank(a) = ConfidenceRank(b)
       /\ StatusRank(a) < StatusRank(b)

\* the surviving delay-candidates, in arrival order
Survivors == SelectSeq(Scanned, LAMBDA e : IsCandidate(e) /\ ~AlreadyClaimed(e))

\* C7: the opportunities list is the stable sort of the surviving
\* delay-candidates: a rearrangement of them in which no opportunity comes after
\* one it precedes by (amount descending, confidence, status), and
\* opportunities with equal keys keep their arrival order.
C7_StableSort ==
    results # None =>
        LET opps == Val(results).opportunities
            surv == Survivors
            n    == Len(surv)
        IN  /\ Len(opps) = n
            /\ \E pi \in [1..n -> 1..n] :
                   /\ \A k, l \in 1..n : k # l => pi[k] # pi[l]
                   /\ \A k \in 1..n : opps[k] = Opportunity[surv[pi[k]], now]
                   /\ \A k, l \in 1..n :
                          k < l => /\ ~Precedes(opps[l], opps[k])
                                   /\ SameKey(opps[k], opps[l]) => pi[k] < pi[l]

\* C7 happens: arrival order (no amount, medium), (2.52, low), (no amount,
\* medium) with equal keys for the first and third; the amount goes first
\* despite its low confidence and the other two keep their order.
C7_Witness ==
    /\ results # None
    /\ mailbox = <<3, 6, 8>>
    /\ Len(Val(results).opportunities) = 3
    /\ Val(results).opportunities[1].confidence = "low"
    /\ Val(results).opportunities[1].refund_amount # None
    /\ SameKey(Val(results).opportunities[2], Val(results).opportunities[3])
    /\ BuiltFrom(Val(results).opportunities[2], Scanned[1])
    /\ BuiltFrom(Val(results).opportunities[3], Scanned[3])

\* the sequence without its k-th element
Without(seq, k) == [i \in 1..(Len(seq) - 1) |-> IF i < k THEN seq[i] ELSE seq[i + 1]]

\* C10 as the claim states it: when fetching or processing the k-th message
\* raised, the scan still stored the summary of the other messages.
C10_AsStated ==
    (/\ response # None
     /\ response.does = "redirect"
     /\ response.flash # None
     /\ Val(response.flash).raised_at # None
     /\ Val(Val(response.flash).raised_at) >= 1)
        => results = Some(summary_of(emails_of(Without(mailbox,
                                   Val(Val(response.flash).raised_at))), now))
-----------------------------------------------------------------------------
(* Properties of calculate_refund, stated over a call and what it returned. *)

Called(fn) == call # None /\ call.fn = fn

\* the call's delay is at least 15 minutes and its price is positive
Eligible ==
    /\ call.delay_mins # None /\ Val(call.delay_mins) >= 15
    /\ call.price # None /\ Val(call.price) > 0

\* amount (in mills) is a whole number of pence and no other whole number of
\* pence is nearer to exact (in hundredths of a mill)
RoundedTo2(amount, exact) ==
    /\ amount % 10 = 0
    /\ amount * 100 - exact <= 500
    /\ exact - amount * 100 <= 500

\* C3: for an operator other than TfL, a positive price P and a delay d >= 15,
\* refund_pct is 25 for d < 30, 50 for 30 <= d < 60 and 100 for d >= 60, and
\* refund_amount is P times that percentage rounded to 2 decimal places.
C3_TieredRefund ==
    (Called("calculate_refund") /\ Eligible /\ call.operator # Some("TfL")) =>
        LET d   == Val(call.delay_mins)
            pct == IF d < 30 THEN 25 ELSE IF d < 60 THEN 50 ELSE 100
        IN  /\ ret[2] = Some(pct)
            /\ ret[1] # None
            /\ RoundedTo2(Val(ret[1]), Val(call.price) * pct)

\* C3 happens: LNER, 45 minutes, 45.00 gives 22.50 and 50.
C3_Witness ==
    /\ Called("calculate_refund")
    /\ call.operator = Some("LNER")
    /\ call.delay_mins = Some(45)
    /\ call.price = Some(45000)
    /\ ret = <<Some(22500), Some(50)>>

\* C4: a delay that is absent or below 15 minutes, or a price that is absent
\* or zero, gives (none, none), whatever the operator.
C4_NotEligible ==
    (/\ Called("calculate_refund")
     /\ \/ call.delay_mins = None
        \/ Val(call.delay_mins) < 15
        \/ call.price = None
        \/ Val(call.price) = 0)
        => ret = <<None, None>>

\* C4 happens: a 45 minute delay with a price of zero gives (none, none).
C4_Witness ==
    /\ Called("calculate_refund")
    /\ call.delay_mins = Some(45)
    /\ call.price = Some(0)
    /\ ret = <<None, None>>

\* C5 as the claim states it: for TfL, a delay >= 15 and a positive price P,
\* refund_amount is P and refund_pct is 100.
C5_AsStated ==
    (Called("calculate_refund") /\ Eligible /\ call.operator = Some("TfL")) =>
        ret = <<call.price, Some(100)>>

\* C5, amended: refund_pct is 100 and refund_amount is P rounded to 2 decimal
\* places, which is P itself when P has at most two decimals.
C5_TflFullRefund ==
    (Called("calculate_refund") /\ Eligible /\ call.operator = Some("TfL")) =>
        /\ ret[2] = Some(100)
        /\ ret[1] # None
        /\ RoundedTo2(Val(ret[1]), Val(call.price) * 100)
        /\ Val(call.price) % 10 = 0 => ret[1] = call.price

\* C5 happens: TfL, 16 minutes, 3.125 gives 3.12 and 100.
C5_Witness ==
    /\ Called("calculate_refund")
    /\ call.operator = Some("TfL")
    /\ call.delay_mins = Some(16)
    /\ call.price = Some(3125)
    /\ ret = <<Some(3120), Some(100)>>

\* the call's operator is given the standard scheme: it is neither TfL nor one
\* of the DR15 operators (an operator that was not detected is among them)
OnStandardScheme ==
    /\ call.operator # Some("TfL")
    /\ call.operator = None \/ Val(call.operator) \notin DR15_OPERATORS

-----------------------------------------------------------------------------
(* Properties of get_claim_deadline.                                       *)

Unknown == [raised |-> FALSE, deadline |-> None, status |-> "unknown"]

\* the journey date is absent, empty or a string in none of the formats
NoJourneyDate(j) == j = None \/ j = Some(<<>>) \/ (j # None /\ Val(j) \in JunkStrings)

\* C8: for an absent, empty or unparseable journey date, get_claim_deadline
\* raises nothing and returns (none, "unknown") whatever the operator, and
\* every opportunity built from such a date has no deadline and status unknown.
C8_UnknownNeverRaises ==
    /\ (Called("get_claim_deadline") /\ NoJourneyDate(call.journey_date_str)) => ret = Unknown
    /\ \A x \in DOMAIN Opportunity :
           NoJourneyDate(Opportunity[x].journey_date) =>
               /\ Opportunity[x].deadline = None
               /\ Opportunity[x].deadline_status = "unknown"

\* C8 happens: an unparseable string with a "T" in it, for which the parser
\* raises inside the function, comes back as unknown.
C8_Witness ==
    /\ Called("get_claim_deadline")
    /\ call.journey_date_str = Some(<<"T","u","e",","," ","1","2"," ","M","a","r"," ","2","0","2","4"," ","0","8",":","0","0",":","0","0"," ","+","0","0","0","0">>)
    /\ call.operator = Some("GWR")
    /\ ret = Unknown

\* the claim window: 30 days for National Express, 28 for everyone else
WindowDays(operator) == IF operator = Some("National Express") THEN 30 ELSE 28

\* C9 as the claim states it: a journey date written in one of the five
\* formats gives deadline = date + 30 days for National Express and + 28 days
\* for any other operator, expired exactly when the time is past the deadline
\* (for deadlines that are dates at all, i.e. up to 9999-12-31).
C9_AsStated ==
    Called("get_claim_deadline") =>
        \A w \in WrittenDates :
            (/\ call.journey_date_str = Some(w[1])
             /\ ymd2ord(w[2][1], w[2][2], w[2][3]) + WindowDays(call.operator) <= MaxOrdinal)
                => LET due == ymd2ord(w[2][1], w[2][2], w[2][3]) + WindowDays(call.operator)
                   IN  /\ ~ret.raised
                       /\ ret.deadline = Some(strftime_ymd(due))
                       /\ ret.status = IF After(call.clock, [ord |-> due, secs |-> 0])
                                       THEN "expired" ELSE "active"

\* C14 as the claim states it: a journey date that is an ISO-8601 timestamp
\* with a "T" separator, with or without a trailing "Z" or a UTC offset, gives
\* deadline = its date + the claim window and status expired or active.
C14_AsStated ==
    (Called("get_claim_deadline") /\ call.journey_date_str # None
                                  /\ Val(call.journey_date_str) \in IsoStrings) =>
        /\ ~ret.raised
        /\ ret.deadline = Some(strftime_ymd(ymd2ord(2024, 3, 15) + WindowDays(call.operator)))
        /\ ret.status \in {"expired", "active"}

-----------------------------------------------------------------------------
(* Properties of categorise_email.                                         *)

\* the categories with a keyword set, in priority order
PRIORITY == <<"delay_claim", "refund", "cancellation", "delay", "booking", "statement", "receipt">>

KeywordsOf(category) ==
    CASE category = "delay_claim" -> KW_DELAY_CLAIM
      [] category = "refund" -> KW_REFUND
      [] category = "cancellation" -> KW_CANCELLATION
      [] category = "delay" -> KW_DELAY
      [] category = "booking" -> KW_BOOKING
      [] category = "statement" -> KW_STATEMENT
      [] category = "receipt" -> KW_RECEIPT

\* the places in PRIORITY whose keyword set has a keyword occurring in text
Matching(text) ==
    {i \in DOMAIN PRIORITY :
        \E k \in DOMAIN KeywordsOf(PRIORITY[i]) : Contains(text, KeywordsOf(PRIORITY[i])[k])}

FirstMatching(text) ==
    IF Matching(text) = {} THEN "other" ELSE PRIORITY[Min(Matching(text))]

\* C11: categorise_email returns one label: the first category in priority
\* order with a keyword occurring in the lower-cased subject and body text,
\* "other" when there is none; the same whatever the sender.
C11_FirstMatchingCategory ==
    Called("categorise_email") =>
        /\ Val(ret) = FirstMatching(lower(call.subject \o <<" ">> \o call.body))
        /\ Val(ret) \in {PRIORITY[i] : i \in DOMAIN PRIORITY} \cup {"other"}
        /\ \A se \in Senders : categorise_email(call.subject, call.body, se) = Val(ret)

\* C11 happens: a text with keywords of delay_claim, refund and delay, from a
\* sender whose address has a keyword of refund, is a delay_claim.
C11_Witness ==
    /\ Called("categorise_email")
    /\ call.subject = <<"Y","o","u","r"," ","R","E","F","U","N","D">>
    /\ call.body = <<"m","o","n","e","y"," ","b","a","c","k"," ","a","n","d"," ","d","e","l","a","y"," ","c","o","m","p","e","n","s","a","t","i","o","n">>
    /\ call.sender = <<"r","e","f","u","n","d","s","@","g","w","r",".","c","o","m">>
    /\ ret = Some("delay_claim")

-----------------------------------------------------------------------------
(* Properties of extract_data.                                             *)

\* the text extract_data searches
TextOf(c) == c.subject \o <<" ">> \o c.body

\* the places in the gazetteer of the stations occurring in the text,
\* compared without regard to case
StationsIn(text) ==
    {k \in DOMAIN UK_STATIONS : Contains(lower(text), lower(UK_STATIONS[k]))}

\* C12: with two or more gazetteer stations in the text, origin is the
\* earliest in gazetteer order and destination the next one in gazetteer
\* order, whatever their positions in the text; with one, origin is that
\* station and destination is absent; with none, both are absent.  So a
\* destination comes only with an origin, and differs from it.
C12_StationsByGazetteerOrder ==
    Called("extract_data") =>
        LET found == StationsIn(TextOf(call))
            first == Min(found)
            rest  == found \ {first}
        IN  /\ ret.origin = IF found = {} THEN None ELSE Some(UK_STATIONS[first])
            /\ ret.destination = IF found = {} \/ rest = {} THEN None
                                  ELSE Some(UK_STATIONS[Min(rest)])
            /\ ret.destination # None => (ret.origin # None /\ ret.origin # ret.destination)

\* C12 happens: "Bristol Temple Meads to London Paddington" gives origin
\* London Paddington and destination Bristol Temple Meads.
C12_Witness ==
    /\ Called("extract_data")
    /\ call.subject = <<"T","r","i","p"," ","u","p","d","a","t","e">>
    /\ call.body = <<"B","r","i","s","t","o","l"," ","T","e","m","p","l","e"," ","M","e","a","d","s"," ","t","o"," ","L","o","n","d","o","n"," ","P","a","d","d","i","n","g","t","o","n">>
    /\ ret.origin = Some(<<"L","o","n","d","o","n"," ","P","a","d","d","i","n","g","t","o","n">>)
    /\ ret.destination = Some(<<"B","r","i","s","t","o","l"," ","T","e","m","p","l","e"," ","M","e","a","d","s">>)

\* the number a delay match starts with, and whether its unit is hour-based
\* (hour, hours, hr, hrs) rather than minute-based
MatchedNumber(m) == IntOf(Slice(m, 1, DigitRun(m, 1)))

HourBased(m) ==
    LET u == 1 + DigitRun(m, 1) + SpaceRun(m, 1 + DigitRun(m, 1))
    IN  LowerChar(m[u]) = "h"

\* C15 as the claim states it: when the delay pattern matches, delay_mins is
\* the matched number for a minute-based unit and 60 times the matched number
\* for an hour-based unit (hour, hours, hr, hrs); when it does not match,
\* delay_mins is absent.
C15_AsStated ==
    Called("extract_data") =>
        LET m == Search(TextOf(call), DelayPattern)
        IN  ret.delay_mins = IF m = None THEN None
                             ELSE IF HourBased(Val(m)) THEN Some(60 * MatchedNumber(Val(m)))
                             ELSE Some(MatchedNumber(Val(m)))

-----------------------------------------------------------------------------
(* Properties of the opportunities' confidence.                            *)

\* the confidence of an opportunity by the fields the extractor detected
ConfidenceByPresence(o) ==
    IF o.booking_ref # None /\ o.delay_mins # None /\ o.price # None THEN "high"
    ELSE IF o.booking_ref # None /\ o.delay_mins # None THEN "medium"
    ELSE "low"

\* C13 as the claim states it: an opportunity's confidence is high exactly
\* when booking_ref, delay_mins and price are all present, whatever their
\* value; medium exactly when booking_ref and delay_mins are present and
\* price is not; low otherwise.
C13_AsStated ==
    results # None =>
        \A i \in 1..Len(Val(results).opportunities) :
            Val(results).opportunities[i].confidence
                = ConfidenceByPresence(Val(results).opportunities[i])

-----------------------------------------------------------------------------
(* Properties of the monetary totals.                                      *)

\* the refund amounts (in thousandths of a pound) of the opportunities of
\* the sequence opps whose deadline status is one of `statuses`; an absent
\* amount counts nothing
AmountsOf(opps, statuses) ==
    [k \in 1..Len(opps) |->
        IF opps[k].refund_amount # None /\ opps[k].deadline_status \in statuses
        THEN Val(opps[k].refund_amount) ELSE 0]

\* C16: every opportunity with a refund_amount is counted in exactly one
\* total: total_expired when its status is expired, total_potential when it
\* is active or unknown; so the two totals add up to the sum of the refund
\* amounts of the opportunities list, which is that of the delay-candidates
\* not already claimed: a claimed one contributes to neither.
C16_TotalsPartition ==
    results # None =>
        LET r == Val(results)
            surv == Survivors
            kept == [k \in 1..Len(surv) |-> Opportunity[surv[k], now]]
        IN  /\ \A k \in 1..Len(r.opportunities) :
                   r.opportunities[k].deadline_status \in {"expired", "active", "unknown"}
            /\ r.total_expired = Sum(AmountsOf(r.opportunities, {"expired"}))
            /\ r.total_potential = Sum(AmountsOf(r.opportunities, {"active", "unknown"}))
            /\ r.total_potential + r.total_expired
                   = Sum(AmountsOf(r.opportunities, {"expired", "active", "unknown"}))
            /\ r.total_potential + r.total_expired
                   = Sum(AmountsOf(kept, {"expired", "active", "unknown"}))

\* C16 happens: a cancellation worth 80.00 that a refund email claims, an
\* expired delay worth 22.50 and a delay of unknown deadline worth 3.12 give
\* total_expired 22.50 and total_potential 3.12.
C16_Witness ==
    /\ results # None
    /\ mailbox = <<5, 4, 2, 9>>
    /\ Opportunity[Scanned[1], now].refund_amount = Some(80000)
    /\ Len(Val(results).opportunities) = 2
    /\ Val(results).total_expired = 22500
    /\ Val(results).total_potential = 3120

-----------------------------------------------------------------------------
(* Properties of extract_body.                                             *)

\* every data of the payload and of its parts, at any depth, is valid base64
RECURSIVE AllValid(_)
AllValid(p) ==
    /\ p.data # None => Val(p.data).valid
    /\ p.parts # None => \A k \in 1..Len(Val(p.parts)) : AllValid(Val(p.parts)[k])

\* the decoded data of the text/plain leaf parts of p, in document order: a
\* leaf is a part without parts
RECURSIVE PlainText(_)
RECURSIVE PlainTextOfParts(_)
PlainTextOfParts(ps) ==
    IF ps = <<>> THEN <<>> ELSE PlainText(Head(ps)) \o PlainTextOfParts(Tail(ps))

PlainText(p) ==
    IF p.parts # None THEN PlainTextOfParts(Val(p.parts))
    ELSE IF p.mimeType = "text/plain" /\ p.data # None THEN Val(p.data).text
    ELSE <<>>

\* C17 as the claim states it: the flattened body is the concatenation, in
\* document order, of the decoded data of all text/plain leaf parts, and no
\* part of another MIME type contributes any text.
C17_AsStated ==
    (Called("extract_body") /\ AllValid(call.payload)) =>
        /\ ~ret.raised
        /\ ret.body = PlainText(call.payload)

-----------------------------------------------------------------------------
(* Properties of the recommendations.                                      *)

\* the delay-candidates of the scan, in arrival order, claimed or not
Candidates == SelectSeq(Scanned, IsCandidate)

\* the operator a delay-candidate is attributed to
AttributedTo(e) == IF e.operator = None THEN Some("Unknown") ELSE e.operator

\* how many of the delay-candidates cands are attributed to each one's operator
Tallies(cands) ==
    [k \in 1..Len(cands) |->
        Cardinality({j \in 1..Len(cands) : AttributedTo(cands[j]) = AttributedTo(cands[k])})]

\* the largest number of the sequence ns, 0 when it is empty
Largest(ns) ==
    IF ns = <<>> THEN 0 ELSE CHOOSE n \in {ns[k] : k \in 1..Len(ns)} : \A k \in 1..Len(ns) : ns[k] <= n

\* what the booking emails of the scan spent, in thousandths of a pound
Spent ==
    Sum([k \in 1..Len(Scanned) |->
            IF Scanned[k].category = "booking" /\ Scanned[k].price # None
            THEN Val(Scanned[k].price) ELSE 0])

\* C18: the operator recommendation is there exactly when some operator has
\* 2 or more delay-candidates in the scan, claimed ones included; it names
\* the operator with the most, the one whose first delay-candidate arrived
\* first when several have the most, and that count; the railcard
\* recommendation is there exactly when more than 300 was spent, and comes
\* first when both are there.
C18_WorstOperator ==
    results # None =>
        LET recs  == Val(results).recommendations
            alts  == SelectSeq(recs, LAMBDA x : x.kind = "alternatives")
            rail  == SelectSeq(recs, LAMBDA x : x.kind = "railcard")
            cands == Candidates
            tally == Tallies(cands)
            most  == Largest(tally)
            first == CHOOSE k \in 1..Len(cands) :
                         tally[k] = most /\ \A j \in 1..(k - 1) : tally[j] < most
        IN  /\ Len(alts) = IF most >= 2 THEN 1 ELSE 0
            /\ most >= 2 => /\ alts[1].operator = AttributedTo(cands[first])
                             /\ alts[1].count = most
            /\ Len(rail) = IF Spent > 300000 THEN 1 ELSE 0
            /\ recs = rail \o alts

\* C18 happens: the season ticket (350.00), then delays of GWR, LNER, GWR and
\* LNER: two operators have two delays each, GWR's first delay arrived first,
\* and the railcard recommendation comes before the one naming GWR.
C18_Witness ==
    /\ results # None
    /\ mailbox = <<10, 5, 2, 11, 3>>
    /\ Len(Val(results).recommendations) = 2
    /\ Val(results).recommendations[1].kind = "railcard"
    /\ Val(results).recommendations[2]
           = [kind |-> "alternatives", operator |-> Some("GWR"), count |-> 2]

-----------------------------------------------------------------------------
(* Properties of the session.                                              *)

\* the response renders the results page
ShowsResults(r) == r # None /\ r.does = "render" /\ r.page = "results.html"

\* the response redirects to the home page
GoesHome(r) == r # None /\ r.does = "redirect" /\ r.target = "index"

\* C19: whenever results are stored, credentials are stored too; results are
\* only written by a scan request made while credentials are present;
\* disconnect removes both credentials and results; and a results request
\* made when no results are stored renders no summary but redirects to the
\* home page.
C19_ResultsNeedCredentials ==
    /\ [](results # None => credentials)
    /\ [][/\ ((results' # results /\ results' # None) => (Scan /\ credentials))
           /\ (Disconnect => (~credentials' /\ results' = None))
           /\ ((credentials /\ ~credentials') => results' = None)
           /\ ((Results /\ results = None) =>
                  (GoesHome(response') /\ ~ShowsResults(response')))
           /\ ((ShowsResults(response') /\ response' # response) =>
                  (results # None /\ response'.shown.results = Val(results)))]_vars

\* C19 happens: after a scan of a mailbox of three messages, made while
\* connected, the stored results are shown by a results request.
C19_Witness ==
    /\ credentials
    /\ results # None
    /\ Len(mailbox) = 3
    /\ ShowsResults(response)
    /\ response.shown.results = Val(results)

\* the response is the one of a scan that did not run or that failed: an
\* error flashed on the way to the home page
ScanRefused(r) ==
    GoesHome(r) /\ r.flash # None /\ Val(r.flash).category = "error"

\* C20: a scan that fails leaves the stored results as they were; so the
\* results stored are always those of the last successful scan, and a results
\* request after a failed scan still shows them.
C20_FailedScanKeepsResults ==
    /\ [][/\ (ScanFails => results' = results)
           /\ ((ScanRefused(response') /\ response' # response) =>
                  results' = results)]_vars
    /\ [](results # None => results = Some(summary_of(emails_of(mailbox), now)))
    /\ [](ShowsResults(response) =>
              response.shown.results = summary_of(emails_of(mailbox), now))

\* C20 happens: results are stored, and the last request was a scan that
\* failed while fetching the second message.
C20_Witness ==
    /\ results # None
    /\ Len(mailbox) >= 2
    /\ response = Redirect("index", Flash("error", Some(2)))
====
